---- MODULE Spec2Model ----
(***************************************************************************)
(* Verification model of the keploy traffic interception engine:          *)
(*   - the per-connection tracker (package connection),                   *)
(*   - the HTTP parser in record and replay mode (package httpparser),    *)
(*   - the recording orchestrator (package record).                       *)
(* Each subsystem has its own specification (SpecTracker, SpecRecord,     *)
(* ...); the variables of the other subsystems stay at their initial      *)
(* value.                                                                  *)
(***************************************************************************)
EXTENDS Integers, Sequences, FiniteSets, TLC

VARIABLES
    conn,          \* the Tracker struct (one connection)
    now,           \* wall clock, in seconds (time.Now())
    trkTrace,      \* history: the data events delivered so far
    trkExact,      \* history: every kernel byte count so far agreed with user space
    trkGapFree,    \* history: no idle period fell between two data events
    trkReported,   \* history: the (request, response) pairs IsComplete reported ready
    trkLast,       \* history: the last tracker operation and what it returned
    mutex,         \* Tracker.mutex, a sync.RWMutex
    thr,           \* the goroutines calling into the tracker, each one's position
    seq            \* history: the tracker as the whole operations, in lock order, leave it

VARIABLES
    mode,          \* models.GetMode() as ProcessOutgoing saw it ("none" before)
    destNil,       \* destConn == nil
    frame,         \* locals of encodeOutgoingHttp / decodeOutgoingHttp
    env,           \* the client application and the destination server
    goPending,     \* goroutines of ParseFinalHttp that did not run yet
    appended,      \* the mocks AppendMocks received, in call order
    parsed,        \* calls of ParseFinalHttp so far
    truth,         \* history: the exchanges the peers went through
    c2d,           \* history: bytes read from the client / written to the server
    d2c,           \* history: bytes read from the server / written to the client
    wfail,         \* history: a Write on a connection failed
    store,         \* test mode: the mocks the matcher can still hand out
    events         \* test mode, history: what decodeOutgoingHttp logged and wrote

VARIABLES
    rec,           \* recorder.Start: position, contexts, locals
    workers,       \* the goroutines Start and Core.Hook started
    chans,         \* the channels of Start and the two streams
    steps          \* history: the shutdown steps taken, in order

VARIABLES
    core,          \* Core: proxyStarted, the pass-through lists in effect, history
    run            \* Core.Run: its position, its two goroutines and its channels

VARIABLES
    call           \* the last call of a function of package yaml or of a parser

VARIABLES
    smock,         \* recorder.StartMock: position, context, its goroutines
    td,            \* the tear-down goroutine of Core.Hook and what it waits for
    serve          \* server.Serve: its position, its goroutine, the calls of Stop

trackerVars == <<conn, now, trkTrace, trkExact, trkGapFree, trkReported, trkLast,
                 mutex, thr, seq>>

httpVars == <<mode, destNil, frame, env, goPending, appended, parsed, truth,
              c2d, d2c, wfail, store, events>>

recorderVars == <<rec, workers, chans, steps>>

coreVars == <<core, run>>

utilVars == <<call>>

serviceVars == <<smock, td, serve>>

vars == <<trackerVars, httpVars, recorderVars, coreVars, utilVars, serviceVars>>

----------------------------------------------------------------------------
(* Bounds of the model *)

MaxEvents == 5       \* data events delivered to the tracker
MaxTime == 8         \* the clock stops here
MaxExchanges == 2    \* HTTP exchanges on one proxied connection
MaxChunks == 2       \* reads one segment of a peer arrives in
MaxFrames == 2       \* test cases and mocks the recorder's streams deliver
MaxCalls == 3        \* tracker operations called by concurrent goroutines
MaxHookCalls == 3    \* calls of Core.Hook on one Core
MaxFiles == 3        \* entries of a directory of test-sets
MaxMocks == 2        \* mocks the outgoing stream of StartMock delivers
MaxTasks == 2        \* goroutines of the proxy and of the hooks error group
MaxSignals == 2      \* interrupt signals delivered to Serve
MaxLines == 3        \* lines of nsswitch.conf
MaxTearDowns == 2    \* runs of the tear-down of Core.Hook

(* Program constants (scaled) *)

EventBodyMaxSize == 1    \* structs2.EventBodyMaxSize: capacity of event.Msg
IdleSeconds == 4         \* time.Second*4 in IsComplete
maxBufferSize == 2       \* maxBufferSize (16 MiB), scaled to the events of this model
AppErrChanCap == 1       \* make(chan models.AppError, 1)
InsertErrChanCap == 1    \* make(chan error, 10)

\* MsgSize of an event: up to one more than event.Msg can hold
MsgSizes == 1..(EventBodyMaxSize + 1)

EgressTraffic == "Egress"
IngressTraffic == "Ingress"

----------------------------------------------------------------------------
(* Helpers on sequences *)

Tail1(q) == SubSeq(q, 2, Len(q))

IsPrefix(s, t) == Len(s) <= Len(t) /\ SubSeq(t, 1, Len(s)) = s

----------------------------------------------------------------------------
(* package connection: the tracker *)

NewTracker ==
    [ openTimestamp         |-> 0,
      closeTimestamp        |-> 0,
      lastActivityTimestamp |-> 0,
      totalSentBytesQueue   |-> <<>>,
      totalRecvBytesQueue   |-> <<>>,
      currentSentBytesQueue |-> <<>>,
      currentRecvBytesQueue |-> <<>>,
      currentSentBufQueue   |-> <<>>,
      currentRecvBufQueue   |-> <<>>,
      sentBytes             |-> 0,
      recvBytes             |-> 0,
      SentBuf               |-> <<>>,
      RecvBuf               |-> <<>>,
      gotResponseDataEvent  |-> FALSE,
      gotRequestDataEvent   |-> FALSE,
      recordTestCountAtomic |-> 0,
      firstRequest          |-> TRUE ]

UpdateTimestamps(c, t) == [c EXCEPT !.lastActivityTimestamp = t]

incRecordTestCount(c) == [c EXCEPT !.recordTestCountAtomic = @ + 1]

decRecordTestCount(c) == [c EXCEPT !.recordTestCountAtomic = @ - 1]

verifyRequestData(expectedRecvBytes, actualRecvBytes) ==
    expectedRecvBytes = actualRecvBytes

verifyResponseData(expectedSentBytes, actualSentBytes) ==
    expectedSentBytes = actualSentBytes

resetConnection(c) ==
    [c EXCEPT !.firstRequest = TRUE,
              !.gotResponseDataEvent = FALSE,
              !.gotRequestDataEvent = FALSE,
              !.recvBytes = 0,
              !.sentBytes = 0,
              !.SentBuf = <<>>,
              !.RecvBuf = <<>>]

\* event.Msg[:msgLength], msgLength = min(MsgSize, EventBodyMaxSize)
MsgPrefix(event) ==
    LET msgLength == IF event.MsgSize > EventBodyMaxSize
                     THEN EventBodyMaxSize ELSE event.MsgSize
    IN SubSeq(event.Msg, 1, msgLength)

\* the egress branch's test for rotating the request into the queues
EgressRotates(c) == c.firstRequest \/ c.gotRequestDataEvent

\* the ingress branch's test for rotating the response into the queues
IngressRotates(c) == (~c.firstRequest) \/ c.gotResponseDataEvent

\* body of the egress branch's if: the request is complete, queue it
RotateRequest(c, event) ==
    [c EXCEPT !.currentRecvBytesQueue = Append(@, c.recvBytes),
              !.recvBytes = 0,
              !.currentRecvBufQueue = Append(@, c.RecvBuf),
              !.RecvBuf = <<>>,
              !.gotRequestDataEvent = FALSE,
              !.gotResponseDataEvent = TRUE,
              !.totalRecvBytesQueue = Append(@, event.ValidateReadBytes),
              !.firstRequest = FALSE]

\* variant: the response buffer is not queued when the exchange is counted
RotateResponseNoBuf(c, event) ==
    incRecordTestCount(
        [c EXCEPT !.currentSentBytesQueue = Append(@, c.sentBytes),
                  !.sentBytes = 0,
                  !.SentBuf = <<>>,
                  !.gotRequestDataEvent = TRUE,
                  !.gotResponseDataEvent = FALSE,
                  !.totalSentBytesQueue = Append(@, event.ValidateWrittenBytes)])

\* body of the ingress branch's if: the response is complete, queue it
RotateResponse(c, event) ==
    incRecordTestCount(
        [c EXCEPT !.currentSentBytesQueue = Append(@, c.sentBytes),
                  !.sentBytes = 0,
                  !.currentSentBufQueue = Append(@, c.SentBuf),
                  !.SentBuf = <<>>,
                  !.gotRequestDataEvent = TRUE,
                  !.gotResponseDataEvent = FALSE,
                  !.totalSentBytesQueue = Append(@, event.ValidateWrittenBytes)])

AddDataEvent(c, event, t) ==
    LET c0 == UpdateTimestamps(c, t) IN
    CASE event.Direction = EgressTraffic ->
            LET c1 == [c0 EXCEPT !.SentBuf = @ \o MsgPrefix(event),
                                 !.sentBytes = @ + event.MsgSize]
            IN IF EgressRotates(c1) THEN RotateRequest(c1, event) ELSE c1
      [] event.Direction = IngressTraffic ->
            LET c1 == [c0 EXCEPT !.RecvBuf = @ \o MsgPrefix(event),
                                 !.recvBytes = @ + event.MsgSize]
            IN IF IngressRotates(c1) THEN RotateResponse(c1, event) ELSE c1
      [] OTHER -> c0

\* IsComplete, first branch: recordTestCountAtomic > 0
IsCompleteQueued(c) ==
    IF /\ Len(c.currentRecvBytesQueue) > 0 /\ Len(c.totalRecvBytesQueue) > 0
       /\ Len(c.currentSentBytesQueue) > 0 /\ Len(c.totalSentBytesQueue) > 0
    THEN
        LET validReq == verifyRequestData(Head(c.currentRecvBytesQueue),
                                          Head(c.totalRecvBytesQueue))
            validRes == verifyResponseData(Head(c.currentSentBytesQueue),
                                           Head(c.totalSentBytesQueue))
            c1 == [c EXCEPT !.currentRecvBytesQueue = Tail1(@),
                            !.totalRecvBytesQueue = Tail1(@),
                            !.currentSentBytesQueue = Tail1(@),
                            !.totalSentBytesQueue = Tail1(@)]
            haveBufs == Len(c.currentRecvBufQueue) > 0 /\ Len(c.currentSentBufQueue) > 0
            c2 == IF haveBufs
                  THEN [c1 EXCEPT !.currentRecvBufQueue = Tail1(@),
                                  !.currentSentBufQueue = Tail1(@)]
                  ELSE c1
        IN [ conn          |-> decRecordTestCount(c2),
             recordTraffic |-> validReq /\ validRes,
             requestBuf    |-> IF haveBufs THEN Head(c.currentRecvBufQueue) ELSE <<>>,
             responseBuf   |-> IF haveBufs THEN Head(c.currentSentBufQueue) ELSE <<>> ]
    ELSE
        [ conn          |-> decRecordTestCount(c),
          recordTraffic |-> FALSE,
          requestBuf    |-> <<>>,
          responseBuf   |-> <<>> ]

\* IsComplete, second branch: idle for 4 s after a response event
IsCompleteIdle(c) ==
    IF Len(c.currentRecvBytesQueue) > 0 /\ Len(c.totalRecvBytesQueue) > 0
    THEN
        LET validReq == verifyRequestData(Head(c.currentRecvBytesQueue),
                                          Head(c.totalRecvBytesQueue))
            c1 == [c EXCEPT !.currentRecvBytesQueue = Tail1(@),
                            !.totalRecvBytesQueue = Tail1(@)]
            haveBuf == Len(c.currentRecvBufQueue) > 0
            c2 == IF haveBuf
                  THEN [c1 EXCEPT !.currentRecvBufQueue = Tail1(@)]
                  ELSE c1
        IN [ conn          |-> resetConnection(c2),
             recordTraffic |-> validReq /\ haveBuf,
             requestBuf    |-> IF haveBuf THEN Head(c.currentRecvBufQueue) ELSE <<>>,
             responseBuf   |-> IF haveBuf THEN c.SentBuf ELSE <<>> ]
    ELSE
        [ conn          |-> resetConnection(c),
          recordTraffic |-> FALSE,
          requestBuf    |-> <<>>,
          responseBuf   |-> <<>> ]

IsComplete(c, currentTimestamp) ==
    LET elapsedTime == currentTimestamp - c.lastActivityTimestamp IN
    IF c.recordTestCountAtomic > 0
    THEN IsCompleteQueued(c)
    ELSE IF c.gotResponseDataEvent /\ elapsedTime >= IdleSeconds
    THEN IsCompleteIdle(c)
    ELSE [ conn          |-> c,
           recordTraffic |-> FALSE,
           requestBuf    |-> <<>>,
           responseBuf   |-> <<>> ]


----------------------------------------------------------------------------
(* The tracker's mutex and its operations statement by statement *)

Threads == 1..2          \* goroutines that call into one tracker
NoThread == 0

\* sync.RWMutex{}: w is the goroutine holding the write lock, r the readers
NewMutex == [w |-> NoThread, r |-> {}]

\* variant: Lock() waits for no one
CanLockAlways(mu) == TRUE

\* conn.mutex.Lock() returns once no goroutine holds the lock in either mode
CanLock(mu) == mu.w = NoThread /\ mu.r = {}

\* conn.mutex.RLock() returns once no goroutine holds the write lock
CanRLock(mu) == mu.w = NoThread

WriteOps == {"AddOpenEvent", "AddDataEvent", "AddCloseEvent", "IsComplete"}
ReadOps == {"ToBytes", "IsInactive"}

NoEvent == [Direction |-> "none"]
NoResult == <<>>
IdleThread == [pc |-> "idle", op |-> "none", event |-> NoEvent,
               got |-> NoResult, expect |-> NoResult, n |-> 0]

\* AddDataEvent up to the test for rotating: timestamp, buffer, byte count
DataAppend(c, event, t) ==
    LET c0 == UpdateTimestamps(c, t) IN
    IF event.Direction = EgressTraffic
    THEN [c0 EXCEPT !.SentBuf = @ \o MsgPrefix(event),
                    !.sentBytes = @ + event.MsgSize]
    ELSE [c0 EXCEPT !.RecvBuf = @ \o MsgPrefix(event),
                    !.recvBytes = @ + event.MsgSize]

DataRotates(c, event) ==
    IF event.Direction = EgressTraffic THEN EgressRotates(c) ELSE IngressRotates(c)

\* first two statements of the rotation: the byte count goes to its queue
RotateBytes(c, event) ==
    IF event.Direction = EgressTraffic
    THEN [c EXCEPT !.currentRecvBytesQueue = Append(@, c.recvBytes),
                   !.recvBytes = 0]
    ELSE [c EXCEPT !.currentSentBytesQueue = Append(@, c.sentBytes),
                   !.sentBytes = 0]

\* next two statements: the buffer goes to its queue
RotateBuf(c, event) ==
    IF event.Direction = EgressTraffic
    THEN [c EXCEPT !.currentRecvBufQueue = Append(@, c.RecvBuf),
                   !.RecvBuf = <<>>]
    ELSE [c EXCEPT !.currentSentBufQueue = Append(@, c.SentBuf),
                   !.SentBuf = <<>>]

\* the rest of the rotation: flags, the kernel's count, firstRequest or counter
RotateRest(c, event) ==
    IF event.Direction = EgressTraffic
    THEN [c EXCEPT !.gotRequestDataEvent = FALSE,
                   !.gotResponseDataEvent = TRUE,
                   !.totalRecvBytesQueue = Append(@, event.ValidateReadBytes),
                   !.firstRequest = FALSE]
    ELSE incRecordTestCount(
           [c EXCEPT !.gotRequestDataEvent = TRUE,
                     !.gotResponseDataEvent = FALSE,
                     !.totalSentBytesQueue = Append(@, event.ValidateWrittenBytes)])

\* AddOpenEvent / AddCloseEvent: timestamp of the last activity and of the event
AddOpenEvent(c, event, t) ==
    [UpdateTimestamps(c, t) EXCEPT !.openTimestamp = event.TimestampNano]

AddCloseEvent(c, event, t) ==
    [UpdateTimestamps(c, t) EXCEPT !.closeTimestamp = event.TimestampNano]

ToBytes(c) == <<c.RecvBuf, c.SentBuf>>

IsInactive(c, duration, t) == t - c.lastActivityTimestamp > duration
----------------------------------------------------------------------------
(* Tracker: the operations as actions *)

NoOp == [op |-> "none"]

InitTracker ==
    /\ conn = NewTracker
    /\ now = 0
    /\ trkTrace = <<>>
    /\ trkExact = TRUE
    /\ trkGapFree = TRUE
    /\ trkReported = <<>>
    /\ trkLast = NoOp
    /\ mutex = NewMutex
    /\ thr = [t \in Threads |-> IdleThread]
    /\ seq = NewTracker

\* A data event from the kernel.  Its payload is tagged with its position in
\* the trace so that the bytes of different events can be told apart; the
\* kernel's byte count either agrees with what user space accumulated
\* (lost = 0) or exceeds it (lost = 1: an event was dropped on the way).
TrackerDataEvent ==
    \E dir \in {IngressTraffic, EgressTraffic}, size \in MsgSizes, lost \in 0..1 :
        /\ Len(trkTrace) < MaxEvents
        /\ LET tag == Len(trkTrace) + 1
               event == [ Direction            |-> dir,
                          MsgSize              |-> size,
                          Msg                  |-> [i \in 1..EventBodyMaxSize |-> tag],
                          ValidateReadBytes    |-> conn.recvBytes + lost,
                          ValidateWrittenBytes |-> conn.sentBytes + lost ]
           IN /\ conn' = AddDataEvent(conn, event, now)
              /\ trkTrace' = Append(trkTrace, [dir |-> dir, msg |-> MsgPrefix(event)])
              /\ trkExact' = (trkExact /\ lost = 0)
              /\ trkGapFree' = (trkGapFree /\ (trkTrace = <<>> \/
                                    now - conn.lastActivityTimestamp < IdleSeconds))
              /\ trkLast' = [op |-> "AddDataEvent"]
        /\ UNCHANGED <<now, trkReported>>
        /\ UNCHANGED <<mutex, thr, seq, httpVars, recorderVars, coreVars, utilVars, serviceVars>>

\* The poller asks whether an exchange is ready.
TrackerIsComplete ==
    LET r == IsComplete(conn, now) IN
    /\ conn' = r.conn
    /\ trkReported' = IF r.recordTraffic
                      THEN Append(trkReported, <<r.requestBuf, r.responseBuf>>)
                      ELSE trkReported
    /\ trkLast' = [ op            |-> "IsComplete",
                    at            |-> now,
                    recordTraffic |-> r.recordTraffic,
                    requestBuf    |-> r.requestBuf,
                    responseBuf   |-> r.responseBuf ]
    /\ UNCHANGED <<now, trkTrace, trkExact, trkGapFree>>
    /\ UNCHANGED <<mutex, thr, seq, httpVars, recorderVars, coreVars, utilVars, serviceVars>>

\* The connection stays idle: IdleSeconds pass without any event.
TrackerIdle ==
    /\ now + IdleSeconds <= MaxTime
    /\ now' = now + IdleSeconds
    /\ UNCHANGED <<conn, trkTrace, trkExact, trkGapFree, trkReported, trkLast>>
    /\ UNCHANGED <<mutex, thr, seq, httpVars, recorderVars, coreVars, utilVars, serviceVars>>

NextTracker ==
    \/ TrackerDataEvent
    \/ TrackerIsComplete
    \/ TrackerIdle
----------------------------------------------------------------------------
(* Tracker: goroutines calling the operations concurrently *)

Calls == thr[1].n + thr[2].n

\* what a step of a goroutine in the tracker leaves alone
MxOthers ==
    /\ UNCHANGED <<now, trkTrace, trkExact, trkGapFree, trkReported, trkLast>>
    /\ UNCHANGED <<httpVars, recorderVars, coreVars, utilVars, serviceVars>>

\* A goroutine calls an operation of the tracker.
MxCall ==
  \E t \in Threads :
    /\ thr[t].pc = "idle"
    /\ Calls < MaxCalls
    /\ \E op \in WriteOps \cup ReadOps, dir \in {IngressTraffic, EgressTraffic} :
          /\ (op # "AddDataEvent" => dir = IngressTraffic)
          /\ LET event ==
                   CASE op = "AddDataEvent" ->
                          [ Direction            |-> dir,
                            MsgSize              |-> 1,
                            Msg                  |-> [i \in 1..EventBodyMaxSize |-> Calls + 1],
                            ValidateReadBytes    |-> 1,
                            ValidateWrittenBytes |-> 1 ]
                     [] op \in {"AddOpenEvent", "AddCloseEvent"} ->
                          [ Direction |-> "none", TimestampNano |-> Calls + 1 ]
                     [] OTHER -> NoEvent
             IN thr' = [thr EXCEPT ![t] = [@ EXCEPT !.pc = "lock", !.op = op,
                                                   !.event = event, !.n = @ + 1]]
    /\ UNCHANGED <<conn, mutex, seq>>
    /\ MxOthers

\* conn.mutex.Lock()
MxLock ==
  \E t \in Threads :
    /\ thr[t].pc = "lock"
    /\ thr[t].op \in WriteOps
    /\ CanLock(mutex)
    /\ mutex' = [mutex EXCEPT !.w = t]
    /\ thr' = [thr EXCEPT ![t].pc = "body"]
    /\ UNCHANGED <<conn, seq>>
    /\ MxOthers

\* conn.mutex.RLock()
MxRLock ==
  \E t \in Threads :
    /\ thr[t].pc = "lock"
    /\ thr[t].op \in ReadOps
    /\ CanRLock(mutex)
    /\ mutex' = [mutex EXCEPT !.r = @ \cup {t}]
    /\ thr' = [thr EXCEPT ![t].pc = "body"]
    /\ UNCHANGED <<conn, seq>>
    /\ MxOthers

\* AddDataEvent, part_002:244-266 / 282-293
MxDataAppend ==
  \E t \in Threads :
    /\ thr[t].pc = "body"
    /\ thr[t].op = "AddDataEvent"
    /\ LET c1 == DataAppend(conn, thr[t].event, now) IN
          /\ conn' = c1
          /\ thr' = [thr EXCEPT ![t].pc = IF DataRotates(c1, thr[t].event)
                                          THEN "rotateBytes" ELSE "unlock"]
    /\ seq' = AddDataEvent(seq, thr[t].event, now)
    /\ UNCHANGED mutex
    /\ MxOthers

MxRotateBytes ==
  \E t \in Threads :
    /\ thr[t].pc = "rotateBytes"
    /\ conn' = RotateBytes(conn, thr[t].event)
    /\ thr' = [thr EXCEPT ![t].pc = "rotateBuf"]
    /\ UNCHANGED <<mutex, seq>>
    /\ MxOthers

MxRotateBuf ==
  \E t \in Threads :
    /\ thr[t].pc = "rotateBuf"
    /\ conn' = RotateBuf(conn, thr[t].event)
    /\ thr' = [thr EXCEPT ![t].pc = "rotateRest"]
    /\ UNCHANGED <<mutex, seq>>
    /\ MxOthers

MxRotateRest ==
  \E t \in Threads :
    /\ thr[t].pc = "rotateRest"
    /\ conn' = RotateRest(conn, thr[t].event)
    /\ thr' = [thr EXCEPT ![t].pc = "unlock"]
    /\ UNCHANGED <<mutex, seq>>
    /\ MxOthers

\* AddOpenEvent and AddCloseEvent between Lock and Unlock
MxOpenClose ==
  \E t \in Threads :
    /\ thr[t].pc = "body"
    /\ thr[t].op \in {"AddOpenEvent", "AddCloseEvent"}
    /\ conn' = IF thr[t].op = "AddOpenEvent"
               THEN AddOpenEvent(conn, thr[t].event, now)
               ELSE AddCloseEvent(conn, thr[t].event, now)
    /\ seq' = IF thr[t].op = "AddOpenEvent"
              THEN AddOpenEvent(seq, thr[t].event, now)
              ELSE AddCloseEvent(seq, thr[t].event, now)
    /\ thr' = [thr EXCEPT ![t].pc = "unlock"]
    /\ UNCHANGED mutex
    /\ MxOthers

\* IsComplete between Lock and Unlock
MxIsComplete ==
  \E t \in Threads :
    /\ thr[t].pc = "body"
    /\ thr[t].op = "IsComplete"
    /\ LET r == IsComplete(conn, now)
           e == IsComplete(seq, now)
       IN /\ conn' = r.conn
          /\ seq' = e.conn
          /\ thr' = [thr EXCEPT ![t] =
                        [@ EXCEPT !.pc = "unlock",
                                  !.got = <<r.recordTraffic, r.requestBuf, r.responseBuf>>,
                                  !.expect = <<e.recordTraffic, e.requestBuf, e.responseBuf>>]]
    /\ UNCHANGED mutex
    /\ MxOthers

\* ToBytes and IsInactive between RLock and RUnlock
MxRead ==
  \E t \in Threads :
    /\ thr[t].pc = "body"
    /\ thr[t].op \in ReadOps
    /\ thr' = [thr EXCEPT ![t] =
                  [@ EXCEPT !.pc = "unlock",
                            !.got = IF thr[t].op = "ToBytes"
                                    THEN ToBytes(conn)
                                    ELSE <<IsInactive(conn, IdleSeconds, now)>>,
                            !.expect = IF thr[t].op = "ToBytes"
                                       THEN ToBytes(seq)
                                       ELSE <<IsInactive(seq, IdleSeconds, now)>>]]
    /\ UNCHANGED <<conn, mutex, seq>>
    /\ MxOthers

\* the deferred conn.mutex.Unlock() / RUnlock(): the operation returns
MxUnlock ==
  \E t \in Threads :
    /\ thr[t].pc = "unlock"
    /\ mutex' = IF thr[t].op \in WriteOps
                THEN [mutex EXCEPT !.w = NoThread]
                ELSE [mutex EXCEPT !.r = @ \ {t}]
    /\ thr' = [thr EXCEPT ![t] = [IdleThread EXCEPT !.n = thr[t].n]]
    /\ UNCHANGED <<conn, seq>>
    /\ MxOthers

NextTrackerMutex ==
    \/ MxCall
    \/ MxLock
    \/ MxRLock
    \/ MxDataAppend
    \/ MxRotateBytes
    \/ MxRotateBuf
    \/ MxRotateRest
    \/ MxOpenClose
    \/ MxIsComplete
    \/ MxRead
    \/ MxUnlock
    \/ TrackerIdle
----------------------------------------------------------------------------
(* package httpparser: HTTP messages as sequences of tokens               *)
(*                                                                         *)
(* A buffer is a sequence of tokens [t, i, v]: t is the kind of token, i   *)
(* the exchange the peer produced it for, v its value.  A header line,     *)
(* the blank line that ends the headers and the last-chunk marker are one  *)
(* token each; a body byte is one token.                                   *)

Tok(t, i, v) == [t |-> t, i |-> i, v |-> v]

ApiHost == 1             \* a host that is recorded
BypassHost == 2          \* a host on the pass-through list
PassThroughHosts == {BypassHost}

Gzip1 == 31              \* 0x1f, first byte of a gzip stream
Gzip2 == 139             \* 0x8b, second byte of a gzip stream
GzipEnd == 0             \* stands for the trailer of a gzip stream

ReqLine(i, host)   == Tok("REQ", i, host)        \* request line and Host header
StatusLine(i, st)  == Tok("RES", i, st)          \* status line of a response
ContentLength(i, n) == Tok("CL", i, n)           \* Content-Length: n
BadContentLength(i) == Tok("CLBAD", i, 0)        \* Content-Length: not a number
Chunked(i)         == Tok("TE", i, 1)            \* Transfer-Encoding: chunked
Expect100(i)       == Tok("EXPECT", i, 100)      \* Expect: 100-continue
GzipEncoding(i)    == Tok("CE", i, 1)            \* Content-Encoding: gzip
OtherEncoding(i)   == Tok("CE", i, 2)            \* Content-Encoding: br
EndOfHeaders(i)    == Tok("EOH", i, 0)           \* "\r\n\r\n"
LastChunk(i)       == Tok("LAST", i, 0)          \* "0\r\n\r\n"
ReqByte(i, b)      == Tok("qbody", i, b)         \* one byte of a request body
RespByte(i, b)     == Tok("sbody", i, b)         \* one byte of a response body

\* "HTTP/1.1 100 Continue\r\n\r\n"
Continue100(i) == <<StatusLine(i, 100), EndOfHeaders(i)>>

\* len() of one token in bytes
TokLen(tok) ==
    CASE tok.t \in {"qbody", "sbody"} -> 1
      [] tok.t = "EOH" -> 4
      [] tok.t = "LAST" -> 5
      [] OTHER -> 2

RECURSIVE BytesLen(_)
BytesLen(buf) == IF buf = <<>> THEN 0 ELSE TokLen(Head(buf)) + BytesLen(Tail(buf))

\* position of the first token that holds "\r\n\r\n", 0 if there is none
\* (the last-chunk marker "0\r\n\r\n" holds it too)
RECURSIVE HeaderEndFrom(_, _)
HeaderEndFrom(buf, j) ==
    IF j > Len(buf) THEN 0
    ELSE IF buf[j].t \in {"EOH", "LAST"} THEN j
    ELSE HeaderEndFrom(buf, j + 1)

HeaderEnd(buf) == HeaderEndFrom(buf, 1)

hasCompleteHeaders(httpChunk) == HeaderEnd(httpChunk) > 0

\* len(buf) - strings.Index(buf, "\r\n\r\n") - 4
BodyLength(buf) == BytesLen(SubSeq(buf, HeaderEnd(buf) + 1, Len(buf)))

HasSuffixLastChunk(buf) == buf # <<>> /\ buf[Len(buf)].t = "LAST"

\* the first line that starts with Content-Length: or Transfer-Encoding:
\* (position, 0 if there is none)
RECURSIVE FramingHeaderFrom(_, _)
FramingHeaderFrom(buf, j) ==
    IF j > Len(buf) THEN 0
    ELSE IF buf[j].t \in {"CL", "CLBAD", "TE"} THEN j
    ELSE FramingHeaderFrom(buf, j + 1)

FramingHeader(buf) == FramingHeaderFrom(buf, 1)

\* the first line that starts with Expect:, trimmed, is "100-continue"
ExpectsContinue(buf) == \E j \in 1..Len(buf) : buf[j].t = "EXPECT" /\ buf[j].v = 100

----------------------------------------------------------------------------
(* net/http and compress/gzip as ParseFinalHttp uses them *)

\* gzip.Writer: Write, Close
GzipCompress(body, i) ==
    <<RespByte(i, Gzip1), RespByte(i, Gzip2)>> \o body \o <<RespByte(i, GzipEnd)>>

\* checkIfGzipped: the first two bytes are 0x1f 0x8b
checkIfGzipped(body) ==
    Len(body) >= 2 /\ body[1].v = Gzip1 /\ body[2].v = Gzip2

\* gzip.NewReader and io.ReadAll on a stream that checkIfGzipped accepted
GzipStreamOk(body) == Len(body) >= 3 /\ body[Len(body)].v = GzipEnd
GzipDecompress(body) == SubSeq(body, 3, Len(body) - 1)

\* the header block of a message: tokens 2..e-1, when the message starts with
\* `first`, every token up to the blank line is a header line and the blank
\* line is there
HeadOk(buf, first) ==
    /\ Len(buf) >= 2
    /\ buf[1].t = first
    /\ HeaderEnd(buf) > 0
    /\ buf[HeaderEnd(buf)].t = "EOH"
    /\ \A j \in 2..(HeaderEnd(buf) - 1) : buf[j].t \in {"CL", "CLBAD", "TE", "EXPECT", "CE"}
    /\ \A j \in 2..(HeaderEnd(buf) - 1) : buf[j].t # "CLBAD"

HeaderLines(buf) == SubSeq(buf, 2, HeaderEnd(buf) - 1)

HasHeader(hdr, t) == \E j \in 1..Len(hdr) : hdr[j].t = t

HeaderValue(hdr, t) == hdr[CHOOSE j \in 1..Len(hdr) :
                              hdr[j].t = t /\ \A l \in 1..(j - 1) : hdr[l].t # t].v

\* every value of header t, in the order of the lines
HeaderValues(hdr, t) ==
    LET RECURSIVE Vals(_)
        Vals(j) == IF j > Len(hdr) THEN <<>>
                   ELSE IF hdr[j].t = t THEN <<hdr[j].v>> \o Vals(j + 1)
                   ELSE Vals(j + 1)
    IN Vals(1)

AfterHeaders(buf) == SubSeq(buf, HeaderEnd(buf) + 1, Len(buf))

\* the body io.ReadAll returns for a message with header lines hdr and the
\* bytes rest after the blank line; toEOF: a message without framing header
\* runs to the end of the buffer (a response) or has no body (a request)
ReadBody(hdr, rest, toEOF) ==
    IF HasHeader(hdr, "TE")
    THEN LET e == HeaderEndFrom(rest, 1) IN
         IF e > 0 /\ rest[e].t = "LAST"
         THEN [ok |-> TRUE, body |-> SubSeq(rest, 1, e - 1)]
         ELSE [ok |-> FALSE, body |-> <<>>]
    ELSE IF HasHeader(hdr, "CL")
    THEN LET n == HeaderValue(hdr, "CL") IN
         IF Len(rest) >= n /\ BytesLen(SubSeq(rest, 1, n)) = n
         THEN [ok |-> TRUE, body |-> SubSeq(rest, 1, n)]
         ELSE [ok |-> FALSE, body |-> <<>>]
    ELSE [ok |-> TRUE, body |-> IF toEOF THEN rest ELSE <<>>]

NoMock == [ok |-> FALSE]

\* ParseFinalHttp up to the point where the mock is handed to AppendMocks:
\* ok is FALSE where ParseFinalHttp returns an error
BuildMock(finalReq, finalResp) ==
    IF ~HeadOk(finalReq, "REQ") THEN NoMock
    ELSE LET reqBody == ReadBody(HeaderLines(finalReq), AfterHeaders(finalReq), FALSE) IN
    IF ~reqBody.ok THEN NoMock
    ELSE IF ~HeadOk(finalResp, "RES") THEN NoMock
    ELSE LET hdr == HeaderLines(finalResp)
             raw == ReadBody(hdr, AfterHeaders(finalResp), TRUE)
             gz  == HasHeader(hdr, "CE") /\ HeaderValue(hdr, "CE") = 1
                    /\ checkIfGzipped(raw.body)
         IN
    IF ~raw.ok \/ (gz /\ ~GzipStreamOk(raw.body)) THEN NoMock
    ELSE LET respBody == IF gz THEN GzipDecompress(raw.body) ELSE raw.body IN
         [ ok         |-> TRUE,
           Host       |-> finalReq[1].v,
           reqId      |-> finalReq[1].i,
           reqBody    |-> reqBody.body,
           respId     |-> finalResp[1].i,
           StatusCode |-> finalResp[1].v,
           contentEncoding |-> HeaderValues(hdr, "CE"),
           clHeader   |-> Len(respBody),
           respBody   |-> respBody ]

\* the test on models.PassThroughHosts
IsPassThroughHost(host) == \E h \in PassThroughHosts : host = h
----------------------------------------------------------------------------
(* The two peers of the proxied connection: the client application and the *)
(* destination server.  An exchange is a list of client segments and a     *)
(* list of server segments: the server sends its j-th segment after it got *)
(* the client's j-th, the client its (j+1)-th after it got the server's    *)
(* j-th (a request with Expect: 100-continue has two segments: headers,    *)
(* body).  A segment arrives in at most MaxChunks reads.                   *)

RespCL(k)      == <<StatusLine(k, 200), ContentLength(k, 2), EndOfHeaders(k),
                    RespByte(k, 1), RespByte(k, 2)>>
RespChunked(k) == <<StatusLine(k, 200), Chunked(k), EndOfHeaders(k),
                    RespByte(k, 1), LastChunk(k)>>
Responses(k)   == {RespCL(k), RespChunked(k)}

ReqGet(k, h)   == <<ReqLine(k, h), EndOfHeaders(k)>>
ReqPost(k)     == <<ReqLine(k, ApiHost), ContentLength(k, 2), EndOfHeaders(k),
                    ReqByte(k, 1), ReqByte(k, 2)>>
ReqChunked(k)  == <<ReqLine(k, ApiHost), Chunked(k), EndOfHeaders(k),
                    ReqByte(k, 1), LastChunk(k)>>
ReqExpectHead(k) == <<ReqLine(k, ApiHost), Expect100(k), ContentLength(k, 1),
                      EndOfHeaders(k)>>
ReqExpectBody(k) == <<ReqByte(k, 1)>>

\* The exchanges a client and a server may go through, as exchange number k.
\* close: the server closes the connection after its last segment.
Exchanges1(k) ==
    { [cli |-> <<req>>, srv |-> <<res>>, close |-> c] :
        req \in {ReqGet(k, ApiHost), ReqGet(k, BypassHost), ReqPost(k), ReqChunked(k)},
        res \in Responses(k), c \in BOOLEAN }

\* Expect: 100-continue, granted by the server with a 100 response
ExchangesExpect(k) ==
    { [cli |-> <<ReqExpectHead(k), ReqExpectBody(k)>>,
       srv |-> <<Continue100(k), res>>, close |-> FALSE] : res \in Responses(k) }

\* Expect: 100-continue, answered by the server with its final response
ExchangesRefused(k) ==
    { [cli |-> <<ReqExpectHead(k)>>,
       srv |-> <<<<StatusLine(k, 417), ContentLength(k, 0), EndOfHeaders(k)>>>>,
       close |-> FALSE] }

\* a request whose Content-Length is not a number, which the server rejects
ExchangesMalformed(k) ==
    { [cli |-> <<<<ReqLine(k, ApiHost), BadContentLength(k), EndOfHeaders(k)>>>>,
       srv |-> <<<<StatusLine(k, 400), ContentLength(k, 0), EndOfHeaders(k)>>>>,
       close |-> FALSE] }

ExchangeKinds(k) ==
    Exchanges1(k) \cup ExchangesExpect(k) \cup ExchangesRefused(k) \cup ExchangesMalformed(k)

InitEnv ==
    [ k       |-> 0,            \* number of the current exchange
      ex      |-> [cli |-> <<>>, srv |-> <<>>, close |-> FALSE],   \* the current exchange, as started
      cli     |-> <<>>,         \* what the client has still to send
      srv     |-> <<>>,         \* what the server has still to send
      cliDone |-> 0,            \* client segments sent in full
      srvDone |-> 0,            \* server segments sent in full
      chunks  |-> 0,            \* reads the segment being sent has taken
      eof     |-> FALSE ]       \* the server has closed the connection

\* What a peer sends next: a prefix of its current segment, the whole rest
\* of it when the segment has used up its reads.
Prefixes(seg, chunks) ==
    { n \in 1..Len(seg) : n = Len(seg) \/ chunks + 1 < MaxChunks }

AfterSend(segs, n) ==
    IF n = Len(Head(segs)) THEN Tail(segs)
    ELSE <<SubSeq(Head(segs), n + 1, Len(Head(segs)))>> \o Tail(segs)

\* util.ReadBytes(clientConn): the outcomes [data, err, env] of one call.
\* relayed: everything the server sent has reached the client.
\* deadline: the caller set a read deadline, the read may time out.
ClientSends(e, relayed) ==
    { [ data |-> SubSeq(Head(e.cli), 1, n), err |-> "nil",
        env  |-> [e EXCEPT !.cli = AfterSend(e.cli, n),
                           !.cliDone = IF n = Len(Head(e.cli)) THEN @ + 1 ELSE @,
                           !.chunks = IF n = Len(Head(e.cli)) THEN 0 ELSE @ + 1] ] :
        n \in IF e.cli # <<>> /\ e.cliDone <= e.srvDone /\ relayed
              THEN Prefixes(Head(e.cli), e.chunks) ELSE {} }

ExchangeOver(e, relayed) == e.cli = <<>> /\ e.srv = <<>> /\ relayed /\ ~e.eof

ClientStarts(e, relayed) ==
    IF ExchangeOver(e, relayed) /\ ~e.ex.close /\ e.k < MaxExchanges
    THEN UNION { ClientSends([e EXCEPT !.k = @ + 1, !.ex = x, !.cli = x.cli,
                                       !.srv = x.srv, !.cliDone = 0,
                                       !.srvDone = 0, !.chunks = 0], relayed) :
                 x \in ExchangeKinds(e.k + 1) }
    ELSE {}

ClientCloses(e, relayed) ==
    IF e.k > 0 /\ (ExchangeOver(e, relayed) \/ e.eof)
    THEN { [data |-> <<>>, err |-> "EOF", env |-> e] }
    ELSE {}

ReadBytesClient(e, relayed, deadline) ==
    ClientSends(e, relayed) \cup ClientStarts(e, relayed) \cup ClientCloses(e, relayed)
        \cup { [data |-> <<>>, err |-> "error", env |-> e] }
        \cup (IF deadline THEN { [data |-> <<>>, err |-> "timeout", env |-> e] }
               ELSE {})

\* util.ReadBytes(destConn): the outcomes [data, err, env] of one call.
\* forwarded: everything the client sent has reached the server.
ServerSends(e, forwarded) ==
    { [ data |-> SubSeq(Head(e.srv), 1, n[1]), err |-> n[2],
        env  |-> [e EXCEPT !.srv = AfterSend(e.srv, n[1]),
                           !.srvDone = IF n[1] = Len(Head(e.srv)) THEN @ + 1 ELSE @,
                           !.chunks = IF n[1] = Len(Head(e.srv)) THEN 0 ELSE @ + 1,
                           !.eof = (n[2] = "EOF")] ] :
        n \in IF e.srv # <<>> /\ e.srvDone < e.cliDone /\ forwarded /\ ~e.eof
              THEN { <<l, "nil">> : l \in Prefixes(Head(e.srv), e.chunks) }
                   \cup { <<l, "EOF">> : l \in { l \in {Len(Head(e.srv))} :
                                                Len(e.srv) = 1 /\ e.ex.close } }
              ELSE {} }

ServerCloses(e) ==
    IF e.k > 0 /\ e.srv = <<>> /\ (e.ex.close \/ e.eof)
    THEN { [data |-> <<>>, err |-> "EOF", env |-> [e EXCEPT !.eof = TRUE]] }
    ELSE {}

ReadBytesDest(e, forwarded, deadline) ==
    ServerSends(e, forwarded) \cup ServerCloses(e)
        \cup { [data |-> <<>>, err |-> "error", env |-> e] }
        \cup (IF deadline THEN { [data |-> <<>>, err |-> "timeout", env |-> e] }
               ELSE {})

\* The bytes read on one side and the bytes written on the other, with
\* their common prefix left out: <<read, written>>.
RECURSIVE Strip(_, _)
Strip(a, b) ==
    IF a # <<>> /\ b # <<>> /\ Head(a) = Head(b)
    THEN Strip(Tail(a), Tail(b))
    ELSE <<a, b>>

Relay(pair, read, written) == Strip(pair[1] \o read, pair[2] \o written)

Relayed(pair) == pair = <<<<>>, <<>>>>
----------------------------------------------------------------------------
(* package httpparser: the call frame of ProcessOutgoing *)

MODE_RECORD == "record"
MODE_TEST == "test"

NewFrame ==
    [ pc            |-> "start",
      finalReq      |-> <<>>,    \* finalReq (record), requestBuffer (test)
      finalResp     |-> <<>>,
      resp          |-> <<>>,    \* resp of encodeOutgoingHttp
      hresp         |-> <<>>,    \* resp of handleChunkedResponses
      sent          |-> <<>>,    \* history: bytes of the response written to the
                                 \* client since the accumulators were reset
      contentLength |-> 0,       \* bytes the Content-Length loops still want
      ret           |-> "none" ] \* "nil" or "err" once the function returned

ReturnNil(f) == [f EXCEPT !.pc = "done", !.ret = "nil"]
ReturnErr(f) == [f EXCEPT !.pc = "done", !.ret = "err"]

IsContinue100(buf) ==
    Len(buf) = 2 /\ buf[1].t = "RES" /\ buf[1].v = 100 /\ buf[2].t = "EOH"

\* ParseFinalHttp: the goroutines it leaves behind, each about to call
\* AppendMocks; n numbers the calls of ParseFinalHttp
SpawnAppend(pending, n, finalReq, finalResp) ==
    LET mk == BuildMock(finalReq, finalResp) IN
    IF mk.ok /\ ~IsPassThroughHost(mk.Host)
    THEN pending \cup {[n |-> n, mock |-> mk]}
    ELSE pending

ParseFinalHttpErr(finalReq, finalResp) == ~BuildMock(finalReq, finalResp).ok

\* handleChunkedRequests returned err: what its caller does
\* (encodeOutgoingHttp returns err; decodeOutgoingHttp logs and returns)
AfterRequestError(f) ==
    IF mode = MODE_RECORD THEN ReturnErr(f) ELSE ReturnNil(f)

\* handleChunkedRequests returned nil: what its caller does next
AfterRequestFramed(f) ==
    [f EXCEPT !.pc = IF mode = MODE_RECORD THEN "readResp" ELSE "match"]

\* handleChunkedRequests after the header loop: which body framing applies
FrameRequest(f) ==
    LET j == FramingHeader(f.finalReq) IN
    IF j = 0 THEN AfterRequestFramed(f)
    ELSE LET hd == f.finalReq[j] IN
      CASE hd.t = "CLBAD" -> AfterRequestError(f)
        [] hd.t = "CL" ->
             LET contentLength == hd.v - BodyLength(f.finalReq) IN
             IF contentLength > 0
             THEN [f EXCEPT !.pc = "clReq", !.contentLength = contentLength]
             ELSE AfterRequestFramed(f)
        [] OTHER ->
             IF HasSuffixLastChunk(f.finalReq) THEN AfterRequestFramed(f)
             ELSE IF hd.v = 1 THEN [f EXCEPT !.pc = "chReq"]
             ELSE AfterRequestFramed(f)

\* handleChunkedResponses after the header loop
FrameResponse(f) ==
    LET j == FramingHeader(f.hresp) IN
    IF j = 0 THEN [f EXCEPT !.pc = "framed"]
    ELSE LET hd == f.hresp[j] IN
      CASE hd.t = "CLBAD" -> ReturnErr(f)
        [] hd.t = "CL" ->
             LET contentLength == hd.v - BodyLength(f.hresp) IN
             IF contentLength > 0
             THEN [f EXCEPT !.pc = "clResp", !.contentLength = contentLength]
             ELSE [f EXCEPT !.pc = "framed"]
        [] OTHER ->
             IF HasSuffixLastChunk(f.finalResp) THEN [f EXCEPT !.pc = "framed"]
             ELSE IF hd.v = 1 THEN [f EXCEPT !.pc = "chResp"]
             ELSE [f EXCEPT !.pc = "framed"]

\* the bytes handleChunkedResponses writes to the client when the
\* destination returns respHeader together with EOF
EofHeaderWrite(f, respHeader) == f.hresp

----------------------------------------------------------------------------
(* encodeOutgoingHttp and its framing helpers, one action per blocking     *)
(* read: the read, and everything the code does up to the next read        *)

\* ProcessOutgoing: the proxy read the first bytes of the connection and
\* calls encodeOutgoingHttp, which forwards them to the destination.
EncStart ==
    /\ mode = MODE_RECORD /\ frame.pc = "start"
    /\ \E o \in ReadBytesClient(env, Relayed(d2c), FALSE), wok \in BOOLEAN :
        /\ o.err = "nil"
        /\ env' = o.env
        /\ truth' = IF o.env.k > env.k THEN Append(truth, o.env.ex) ELSE truth
        /\ c2d' = Relay(c2d, o.data, IF wok THEN o.data ELSE <<>>)
        /\ wfail' = (wfail \/ ~wok)
        /\ frame' = IF wok THEN [frame EXCEPT !.pc = "loop", !.finalReq = o.data]
                    ELSE ReturnErr(frame)
    /\ UNCHANGED <<trackerVars, recorderVars, coreVars, utilVars, serviceVars, store, events>>
    /\ UNCHANGED <<mode, destNil, d2c, goPending, appended, parsed>>

\* top of the keep-alive loop: is there an Expect: 100-continue header?
EncLoopHead ==
    /\ mode = MODE_RECORD /\ frame.pc = "loop"
    /\ frame' = [frame EXCEPT !.pc = IF ExpectsContinue(frame.finalReq)
                                     THEN "expect100" ELSE "hcReq"]
    /\ UNCHANGED <<trackerVars, recorderVars, coreVars, utilVars, serviceVars, store, events>>
    /\ UNCHANGED <<mode, destNil, env, truth, c2d, d2c, wfail, goPending, appended, parsed>>

\* read the server's answer to the Expect header and relay it
EncExpect100 ==
    /\ mode = MODE_RECORD /\ frame.pc = "expect100"
    /\ \E o \in ReadBytesDest(env, Relayed(c2d), FALSE), wok \in BOOLEAN :
        /\ env' = o.env
        /\ IF o.err # "nil"
           THEN /\ frame' = ReturnErr(frame)
                /\ d2c' = Relay(d2c, o.data, <<>>)
                /\ wfail' = wfail
           ELSE /\ d2c' = Relay(d2c, o.data, IF wok THEN o.data ELSE <<>>)
                /\ wfail' = (wfail \/ ~wok)
                /\ frame' = IF ~wok THEN ReturnErr([frame EXCEPT !.resp = o.data])
                            ELSE IF ~IsContinue100(o.data)
                            THEN ReturnNil([frame EXCEPT !.resp = o.data])
                            ELSE [frame EXCEPT !.resp = o.data, !.pc = "expectBody"]
    /\ UNCHANGED <<trackerVars, recorderVars, coreVars, utilVars, serviceVars, store, events>>
    /\ UNCHANGED <<mode, destNil, truth, c2d, goPending, appended, parsed>>

\* read the request body the client sends after the 100 response
EncExpectBody ==
    /\ mode = MODE_RECORD /\ frame.pc = "expectBody"
    /\ \E o \in ReadBytesClient(env, Relayed(d2c), FALSE), wok \in BOOLEAN :
        /\ env' = o.env
        /\ truth' = IF o.env.k > env.k THEN Append(truth, o.env.ex) ELSE truth
        /\ IF o.err # "nil"
           THEN /\ frame' = ReturnErr(frame)
                /\ UNCHANGED <<c2d, wfail>>
           ELSE /\ c2d' = Relay(c2d, o.data, IF wok THEN o.data ELSE <<>>)
                /\ wfail' = (wfail \/ ~wok)
                /\ frame' = IF ~wok THEN ReturnErr(frame)
                            ELSE [frame EXCEPT !.finalReq = @ \o o.data, !.pc = "hcReq"]
    /\ UNCHANGED <<trackerVars, recorderVars, coreVars, utilVars, serviceVars, store, events>>
    /\ UNCHANGED <<mode, destNil, d2c, goPending, appended, parsed>>

\* handleChunkedRequests: the headers are not complete, read more
HcReqReadHeader ==
    /\ frame.pc = "hcReq" /\ ~hasCompleteHeaders(frame.finalReq)
    /\ \E o \in ReadBytesClient(env, Relayed(d2c), FALSE), wok \in BOOLEAN :
        /\ env' = o.env
        /\ truth' = IF o.env.k > env.k THEN Append(truth, o.env.ex) ELSE truth
        /\ destNil => wok
        /\ IF o.err # "nil"
           THEN /\ frame' = AfterRequestError(frame)
                /\ UNCHANGED <<c2d, wfail>>
           ELSE /\ c2d' = Relay(c2d, o.data, IF wok /\ ~destNil THEN o.data ELSE <<>>)
                /\ wfail' = (wfail \/ ~wok)
                /\ frame' = IF ~wok THEN AfterRequestError(frame)
                            ELSE [frame EXCEPT !.finalReq = @ \o o.data]
    /\ UNCHANGED <<trackerVars, recorderVars, coreVars, utilVars, serviceVars, store, events>>
    /\ UNCHANGED <<mode, destNil, d2c, goPending, appended, parsed>>

\* handleChunkedRequests: the headers are complete, pick the body framing
HcReqFrame ==
    /\ frame.pc = "hcReq" /\ hasCompleteHeaders(frame.finalReq)
    /\ frame' = FrameRequest(frame)
    /\ UNCHANGED <<trackerVars, recorderVars, coreVars, utilVars, serviceVars, store, events>>
    /\ UNCHANGED <<mode, destNil, env, truth, c2d, d2c, wfail, goPending, appended, parsed>>

\* contentLengthRequest: one turn of its loop
ClReqRead ==
    /\ frame.pc = "clReq"
    /\ \E o \in ReadBytesClient(env, Relayed(d2c), TRUE), wok \in BOOLEAN :
        /\ env' = o.env
        /\ truth' = IF o.env.k > env.k THEN Append(truth, o.env.ex) ELSE truth
        /\ destNil => wok
        /\ IF o.err # "nil"
           THEN /\ frame' = IF o.err = "timeout" THEN AfterRequestFramed(frame)
                            ELSE AfterRequestError(frame)
                /\ UNCHANGED <<c2d, wfail>>
           ELSE /\ c2d' = Relay(c2d, o.data, IF wok /\ ~destNil THEN o.data ELSE <<>>)
                /\ wfail' = (wfail \/ ~wok)
                /\ LET f1 == [frame EXCEPT !.finalReq = @ \o o.data,
                                           !.contentLength = @ - BytesLen(o.data)]
                   IN frame' = IF ~wok THEN AfterRequestError(f1)
                               ELSE IF f1.contentLength > 0 THEN f1
                               ELSE AfterRequestFramed(f1)
    /\ UNCHANGED <<trackerVars, recorderVars, coreVars, utilVars, serviceVars, store, events>>
    /\ UNCHANGED <<mode, destNil, d2c, goPending, appended, parsed>>

\* chunkedRequest: one turn of its loop
ChReqRead ==
    /\ frame.pc = "chReq"
    /\ \E o \in ReadBytesClient(env, Relayed(d2c), TRUE), wok \in BOOLEAN :
        /\ env' = o.env
        /\ truth' = IF o.env.k > env.k THEN Append(truth, o.env.ex) ELSE truth
        /\ destNil => wok
        /\ IF o.err # "nil"
           THEN /\ frame' = IF o.err = "timeout" THEN AfterRequestFramed(frame)
                            ELSE AfterRequestError(frame)
                /\ UNCHANGED <<c2d, wfail>>
           ELSE /\ c2d' = Relay(c2d, o.data, IF wok /\ ~destNil THEN o.data ELSE <<>>)
                /\ wfail' = (wfail \/ ~wok)
                /\ LET f1 == [frame EXCEPT !.finalReq = @ \o o.data]
                   IN frame' = IF ~wok THEN AfterRequestError(f1)
                               ELSE IF HasSuffixLastChunk(o.data)
                               THEN AfterRequestFramed(f1)
                               ELSE f1
    /\ UNCHANGED <<trackerVars, recorderVars, coreVars, utilVars, serviceVars, store, events>>
    /\ UNCHANGED <<mode, destNil, d2c, goPending, appended, parsed>>

\* encodeOutgoingHttp: read the first bytes of the response
EncReadResp ==
    /\ mode = MODE_RECORD /\ frame.pc = "readResp"
    /\ \E o \in ReadBytesDest(env, Relayed(c2d), FALSE), wok \in BOOLEAN :
        /\ env' = o.env
        /\ CASE o.err = "EOF" /\ o.data # <<>> ->
                  \* data together with EOF: relay it, save the last exchange
                  /\ d2c' = Relay(d2c, o.data, IF wok THEN o.data ELSE <<>>)
                  /\ wfail' = (wfail \/ ~wok)
                  /\ LET f1 == [frame EXCEPT !.resp = o.data,
                                             !.sent = @ \o o.data] IN
                     IF ~wok
                     THEN /\ frame' = ReturnErr(f1)
                          /\ UNCHANGED <<goPending, parsed>>
                     ELSE /\ frame' = IF ParseFinalHttpErr(f1.finalReq, f1.finalResp)
                                      THEN ReturnErr(f1) ELSE ReturnNil(f1)
                          /\ goPending' = SpawnAppend(goPending, parsed + 1,
                                                      f1.finalReq, f1.finalResp)
                          /\ parsed' = parsed + 1
             [] o.err = "EOF" /\ o.data = <<>> ->
                  /\ frame' = ReturnNil(frame)
                  /\ UNCHANGED <<d2c, wfail, goPending, parsed>>
             [] o.err \in {"error", "timeout"} ->
                  /\ frame' = ReturnErr([frame EXCEPT !.resp = o.data])
                  /\ d2c' = Relay(d2c, o.data, <<>>)
                  /\ UNCHANGED <<wfail, goPending, parsed>>
             [] OTHER ->
                  /\ d2c' = Relay(d2c, o.data, IF wok THEN o.data ELSE <<>>)
                  /\ wfail' = (wfail \/ ~wok)
                  /\ frame' = IF ~wok THEN ReturnErr([frame EXCEPT !.resp = o.data])
                              ELSE [frame EXCEPT !.resp = o.data,
                                                 !.finalResp = @ \o o.data,
                                                 !.hresp = o.data,
                                                 !.sent = @ \o o.data,
                                                 !.pc = "hcResp"]
                  /\ UNCHANGED <<goPending, parsed>>
    /\ UNCHANGED <<trackerVars, recorderVars, coreVars, utilVars, serviceVars, store, events>>
    /\ UNCHANGED <<mode, destNil, truth, c2d, appended>>

\* handleChunkedResponses: the headers are not complete, read more
HcRespReadHeader ==
    /\ frame.pc = "hcResp" /\ ~hasCompleteHeaders(frame.hresp)
    /\ \E o \in ReadBytesDest(env, Relayed(c2d), FALSE), wok \in BOOLEAN :
        /\ env' = o.env
        /\ CASE o.err = "EOF" /\ o.data # <<>> ->
                  \* handleChunkedResponses returns io.EOF (or the write's error)
                  /\ d2c' = Relay(d2c, o.data,
                                  IF wok THEN EofHeaderWrite(frame, o.data) ELSE <<>>)
                  /\ wfail' = (wfail \/ ~wok)
                  /\ LET f1 == [frame EXCEPT
                                  !.finalResp = @ \o o.data,
                                  !.sent = @ \o EofHeaderWrite(frame, o.data)] IN
                     IF ~wok
                     THEN /\ frame' = ReturnErr(frame)
                          /\ UNCHANGED <<goPending, parsed>>
                     ELSE /\ frame' = IF ParseFinalHttpErr(f1.finalReq, f1.finalResp)
                                      THEN ReturnErr(f1) ELSE ReturnNil(f1)
                          /\ goPending' = SpawnAppend(goPending, parsed + 1,
                                                      f1.finalReq, f1.finalResp)
                          /\ parsed' = parsed + 1
             [] o.err = "EOF" /\ o.data = <<>> ->
                  /\ frame' = IF ParseFinalHttpErr(frame.finalReq, frame.finalResp)
                              THEN ReturnErr(frame) ELSE ReturnNil(frame)
                  /\ goPending' = SpawnAppend(goPending, parsed + 1,
                                              frame.finalReq, frame.finalResp)
                  /\ parsed' = parsed + 1
                  /\ UNCHANGED <<d2c, wfail>>
             [] o.err \in {"error", "timeout"} ->
                  /\ frame' = ReturnErr(frame)
                  /\ d2c' = Relay(d2c, o.data, <<>>)
                  /\ UNCHANGED <<wfail, goPending, parsed>>
             [] OTHER ->
                  /\ d2c' = Relay(d2c, o.data, IF wok THEN o.data ELSE <<>>)
                  /\ wfail' = (wfail \/ ~wok)
                  /\ frame' = IF ~wok THEN ReturnErr(frame)
                              ELSE [frame EXCEPT !.finalResp = @ \o o.data,
                                                 !.hresp = @ \o o.data,
                                                 !.sent = @ \o o.data]
                  /\ UNCHANGED <<goPending, parsed>>
    /\ UNCHANGED <<trackerVars, recorderVars, coreVars, utilVars, serviceVars, store, events>>
    /\ UNCHANGED <<mode, destNil, truth, c2d, appended>>

\* handleChunkedResponses: the headers are complete, pick the body framing
HcRespFrame ==
    /\ frame.pc = "hcResp" /\ hasCompleteHeaders(frame.hresp)
    /\ frame' = FrameResponse(frame)
    /\ UNCHANGED <<trackerVars, recorderVars, coreVars, utilVars, serviceVars, store, events>>
    /\ UNCHANGED <<mode, destNil, env, truth, c2d, d2c, wfail, goPending, appended, parsed>>

\* contentLengthResponse: one turn of its loop
ClRespRead ==
    /\ frame.pc = "clResp"
    /\ \E o \in ReadBytesDest(env, Relayed(c2d), TRUE), wok \in BOOLEAN :
        /\ env' = o.env
        /\ CASE o.err \in {"EOF", "timeout"} /\ o.data = <<>> ->
                  \* break: contentLengthResponse returns nil
                  /\ frame' = [frame EXCEPT !.pc = "framed"]
                  /\ UNCHANGED <<d2c, wfail>>
             [] o.err = "error" ->
                  /\ frame' = ReturnErr(frame)
                  /\ UNCHANGED <<d2c, wfail>>
             [] OTHER ->
                  /\ d2c' = Relay(d2c, o.data, IF wok THEN o.data ELSE <<>>)
                  /\ wfail' = (wfail \/ ~wok)
                  /\ LET f1 == [frame EXCEPT !.finalResp = @ \o o.data,
                                             !.contentLength = @ - BytesLen(o.data)]
                         f2 == [f1 EXCEPT !.sent = @ \o o.data]
                     IN frame' = IF ~wok THEN ReturnErr(f1)
                                 ELSE IF o.err = "EOF" \/ f1.contentLength <= 0
                                 THEN [f2 EXCEPT !.pc = "framed"]
                                 ELSE f2
    /\ UNCHANGED <<trackerVars, recorderVars, coreVars, utilVars, serviceVars, store, events>>
    /\ UNCHANGED <<mode, destNil, truth, c2d, goPending, appended, parsed>>

\* chunkedResponse: one turn of its loop (no read deadline)
ChRespRead ==
    /\ frame.pc = "chResp"
    /\ \E o \in ReadBytesDest(env, Relayed(c2d), FALSE), wok \in BOOLEAN :
        /\ env' = o.env
        /\ CASE o.err = "EOF" /\ o.data = <<>> ->
                  /\ frame' = [frame EXCEPT !.pc = "framed"]
                  /\ UNCHANGED <<d2c, wfail>>
             [] o.err \in {"error", "timeout"} ->
                  /\ frame' = ReturnErr(frame)
                  /\ UNCHANGED <<d2c, wfail>>
             [] OTHER ->
                  /\ d2c' = Relay(d2c, o.data, IF wok THEN o.data ELSE <<>>)
                  /\ wfail' = (wfail \/ ~wok)
                  /\ LET f1 == [frame EXCEPT !.finalResp = @ \o o.data]
                         f2 == [f1 EXCEPT !.sent = @ \o o.data]
                     IN frame' = IF ~wok THEN ReturnErr(f1)
                                 ELSE IF o.err = "EOF" \/ o.data = <<LastChunk(o.data[1].i)>>
                                 THEN [f2 EXCEPT !.pc = "framed"]
                                 ELSE f2
    /\ UNCHANGED <<trackerVars, recorderVars, coreVars, utilVars, serviceVars, store, events>>
    /\ UNCHANGED <<mode, destNil, truth, c2d, goPending, appended, parsed>>

\* encodeOutgoingHttp: handleChunkedResponses returned nil; save the
\* exchange and reset the accumulators
EncSaveExchange ==
    /\ mode = MODE_RECORD /\ frame.pc = "framed"
    /\ goPending' = SpawnAppend(goPending, parsed + 1, frame.finalReq, frame.finalResp)
    /\ parsed' = parsed + 1
    /\ frame' = IF ParseFinalHttpErr(frame.finalReq, frame.finalResp)
                THEN ReturnErr(frame)
                ELSE [frame EXCEPT !.finalReq = <<>>, !.finalResp = <<>>,
                                   !.sent = <<>>, !.pc = "readNext"]
    /\ UNCHANGED <<trackerVars, recorderVars, coreVars, utilVars, serviceVars, store, events>>
    /\ UNCHANGED <<mode, destNil, env, truth, c2d, d2c, wfail, appended>>

\* encodeOutgoingHttp: read the next request of the connection
EncReadNext ==
    /\ mode = MODE_RECORD /\ frame.pc = "readNext"
    /\ \E o \in ReadBytesClient(env, Relayed(d2c), FALSE), wok \in BOOLEAN :
        /\ env' = o.env
        /\ truth' = IF o.env.k > env.k THEN Append(truth, o.env.ex) ELSE truth
        /\ IF o.err # "nil"
           THEN /\ frame' = ReturnNil([frame EXCEPT !.finalReq = o.data])
                /\ UNCHANGED <<c2d, wfail>>
           ELSE /\ c2d' = Relay(c2d, o.data, IF wok THEN o.data ELSE <<>>)
                /\ wfail' = (wfail \/ ~wok)
                /\ frame' = IF ~wok THEN ReturnErr([frame EXCEPT !.finalReq = o.data])
                            ELSE [frame EXCEPT !.finalReq = o.data, !.pc = "loop"]
    /\ UNCHANGED <<trackerVars, recorderVars, coreVars, utilVars, serviceVars, store, events>>
    /\ UNCHANGED <<mode, destNil, d2c, goPending, appended, parsed>>

\* A goroutine started by ParseFinalHttp runs: it calls AppendMocks.
GoAppendMocks ==
    /\ \E g \in goPending :
        /\ appended' = Append(appended, g.mock)
        /\ goPending' = goPending \ {g}
    /\ UNCHANGED <<trackerVars, recorderVars, coreVars, utilVars, serviceVars, store, events>>
    /\ UNCHANGED <<mode, destNil, frame, env, truth, c2d, d2c, wfail, parsed>>

InitHttp ==
    /\ mode = "none"
    /\ destNil = FALSE
    /\ frame = NewFrame
    /\ env = InitEnv
    /\ goPending = {}
    /\ appended = <<>>
    /\ parsed = 0
    /\ truth = <<>>
    /\ c2d = <<<<>>, <<>>>>
    /\ d2c = <<<<>>, <<>>>>
    /\ wfail = FALSE
    /\ store = <<>>
    /\ events = <<>>

\* ProcessOutgoing in record mode: the proxy dialled the destination
ProcessOutgoingRecord ==
    /\ mode = "none"
    /\ mode' = MODE_RECORD
    /\ UNCHANGED <<trackerVars, recorderVars, coreVars, utilVars, serviceVars, store, events>>
    /\ UNCHANGED <<destNil, frame, env, goPending, appended, parsed, truth,
                   c2d, d2c, wfail>>

NextRecord ==
    \/ ProcessOutgoingRecord
    \/ EncStart
    \/ EncLoopHead
    \/ EncExpect100
    \/ EncExpectBody
    \/ HcReqReadHeader
    \/ HcReqFrame
    \/ ClReqRead
    \/ ChReqRead
    \/ EncReadResp
    \/ HcRespReadHeader
    \/ HcRespFrame
    \/ ClRespRead
    \/ ChRespRead
    \/ EncSaveExchange
    \/ EncReadNext
    \/ GoAppendMocks

----------------------------------------------------------------------------
(* decodeOutgoingHttp: replay (test) mode *)

\* responses that were recorded with a Content-Encoding header
RespGzip(k)  == <<StatusLine(k, 200), GzipEncoding(k), ContentLength(k, 4),
                  EndOfHeaders(k)>> \o GzipCompress(<<RespByte(k, 1)>>, k)
RespMixed(k) == <<StatusLine(k, 200), OtherEncoding(k), GzipEncoding(k),
                  ContentLength(k, 1), EndOfHeaders(k), RespByte(k, 1)>>

\* the mocks of an earlier recording (exchange number 0)
MockCatalog ==
    { BuildMock(req, res) :
        req \in {ReqGet(0, ApiHost), ReqPost(0)},
        res \in {RespCL(0), RespChunked(0), RespGzip(0), RespMixed(0)} }

\* the mock stores a replay may start with
Stores ==
    {<<>>} \cup { <<m>> : m \in MockCatalog }
           \cup { <<m1, m2>> : m1 \in {BuildMock(ReqGet(0, ApiHost), RespCL(0))},
                               m2 \in MockCatalog }

\* what the matcher compares: the Host and the bytes of the body
MatchKey(host, body) == <<host, [j \in 1..Len(body) |-> body[j].v]>>

RemoveAt(s, p) == SubSeq(s, 1, p - 1) \o SubSeq(s, p + 1, Len(s))

\* match: the earliest mock of the store that matches the request is
\* returned and consumed
match(mocks, host, reqBody) ==
    LET hits == { p \in 1..Len(mocks) :
                    MatchKey(mocks[p].Host, mocks[p].reqBody) = MatchKey(host, reqBody) }
    IN IF hits = {}
       THEN [isMatched |-> FALSE, stub |-> NoMock, mocks |-> mocks]
       ELSE LET p == CHOOSE q \in hits : \A r \in hits : q <= r
            IN [isMatched |-> TRUE, stub |-> mocks[p], mocks |-> RemoveAt(mocks, p)]

\* pkg.ToHttpHeader(stub.Spec.HttpResp.Header)["Content-Encoding"]
ToHttpHeader(stub) == stub.contentEncoding

\* the body decodeOutgoingHttp sends for a stub
SynthBody(stub) ==
    LET header == ToHttpHeader(stub) IN
    IF header # <<>> /\ header[1] = 1
    THEN GzipCompress(stub.respBody, stub.respId)
    ELSE stub.respBody

\* variant: the Content-Length of the stored body is kept
SynthContentLengthStored(stub, respBody) == BytesLen(stub.respBody)

\* the value decodeOutgoingHttp gives the Content-Length header
SynthContentLength(stub, respBody) == BytesLen(respBody)

\* responseString: status line, headers, blank line, body
SynthResponse(stub) ==
    LET respBody == SynthBody(stub)
        i == stub.respId
    IN <<StatusLine(i, stub.StatusCode)>>
       \o [j \in 1..Len(stub.contentEncoding) |->
             Tok("CE", i, stub.contentEncoding[j])]
       \o <<ContentLength(i, SynthContentLength(stub, respBody)), EndOfHeaders(i)>>
       \o respBody

\* variant: every miss is logged
MissIsLoggedAlways(host) == TRUE

\* "Didn't match any prexisting http mock" is logged for this Host
MissIsLogged(host) == ~IsPassThroughHost(host)

\* bytes.Contains(requestBuffer, "Expect: 100-continue")
ContainsExpect(buf) == \E j \in 1..Len(buf) : buf[j].t = "EXPECT" /\ buf[j].v = 100

\* the client application got a reply that the proxy wrote itself
ClientGotInterim(e) ==
    IF e.srv = <<>> THEN e
    ELSE [e EXCEPT !.srv = Tail(@), !.srvDone = @ + 1]
ClientGotFinal(e) == [e EXCEPT !.srv = <<>>, !.srvDone = Len(e.ex.srv)]

\* ProcessOutgoing in test mode: the destination may be unreachable
ProcessOutgoingTest ==
    /\ mode = "none"
    /\ mode' = MODE_TEST
    /\ destNil' \in BOOLEAN
    /\ store' \in Stores
    /\ UNCHANGED <<trackerVars, recorderVars, coreVars, utilVars, serviceVars>>
    /\ UNCHANGED <<frame, env, goPending, appended, parsed, truth, c2d, d2c,
                   wfail, events>>

\* decodeOutgoingHttp is called with the first bytes of the connection
DecStart ==
    /\ mode = MODE_TEST /\ frame.pc = "start"
    /\ \E o \in ReadBytesClient(env, Relayed(d2c), FALSE) :
        /\ o.err = "nil"
        /\ env' = o.env
        /\ truth' = IF o.env.k > env.k THEN Append(truth, o.env.ex) ELSE truth
        /\ c2d' = Relay(c2d, o.data, <<>>)
        /\ frame' = [frame EXCEPT !.pc = "loop", !.finalReq = o.data]
    /\ UNCHANGED <<trackerVars, recorderVars, coreVars, utilVars, serviceVars>>
    /\ UNCHANGED <<mode, destNil, d2c, wfail, goPending, appended, parsed,
                   store, events>>

DecLoopHead ==
    /\ mode = MODE_TEST /\ frame.pc = "loop"
    /\ frame' = [frame EXCEPT !.pc = IF ContainsExpect(frame.finalReq)
                                     THEN "expect100" ELSE "hcReq"]
    /\ UNCHANGED <<trackerVars, recorderVars, coreVars, utilVars, serviceVars>>
    /\ UNCHANGED <<mode, destNil, env, truth, c2d, d2c, wfail, goPending,
                   appended, parsed, store, events>>

\* answer the Expect header with 100 Continue and read the body
DecExpect100 ==
    /\ mode = MODE_TEST /\ frame.pc = "expect100"
    /\ \E wok \in BOOLEAN :
        IF ~wok
        THEN /\ frame' = ReturnNil(frame)
             /\ wfail' = TRUE
             /\ UNCHANGED <<env, truth, c2d, events>>
        ELSE \E o \in ReadBytesClient(ClientGotInterim(env), Relayed(d2c), FALSE) :
             /\ env' = o.env
             /\ truth' = IF o.env.k > env.k THEN Append(truth, o.env.ex) ELSE truth
             /\ events' = Append(events, [ev |-> "continue"])
             /\ wfail' = wfail
             /\ IF o.err # "nil"
                THEN /\ frame' = ReturnNil(frame)
                     /\ c2d' = c2d
                ELSE /\ frame' = [frame EXCEPT !.finalReq = @ \o o.data, !.pc = "hcReq"]
                     /\ c2d' = Relay(c2d, o.data, <<>>)
    /\ UNCHANGED <<trackerVars, recorderVars, coreVars, utilVars, serviceVars>>
    /\ UNCHANGED <<mode, destNil, d2c, goPending, appended, parsed, store>>

\* parse the framed request, ask the matcher, answer from the mock or
\* hand the request to util.Passthrough
DecMatch ==
    /\ mode = MODE_TEST /\ frame.pc = "match"
    /\ LET requestBuffer == frame.finalReq
           reqBody == ReadBody(HeaderLines(requestBuffer), AfterHeaders(requestBuffer), FALSE)
       IN
       IF ~HeadOk(requestBuffer, "REQ") \/ ~reqBody.ok
       THEN /\ frame' = ReturnNil(frame)
            /\ UNCHANGED <<env, c2d, wfail, store, events>>
       ELSE LET host == requestBuffer[1].v
                m == match(store, host, reqBody.body)
            IN
            IF ~m.isMatched
            THEN /\ events' = events
                      \o (IF MissIsLogged(host)
                          THEN <<[ev |-> "error", msg |-> "Didn't match any prexisting http mock"]>>
                          ELSE <<>>)
                      \o <<[ev |-> "Passthrough", host |-> host,
                            requestBuffer |-> requestBuffer]>>
                 /\ store' = m.mocks
                 /\ \E wok \in BOOLEAN :
                      /\ destNil => wok
                      /\ wfail' = (wfail \/ ~wok)
                      /\ c2d' = IF destNil \/ ~wok THEN c2d
                                ELSE Relay(c2d, <<>>, requestBuffer)
                      /\ frame' = IF destNil \/ ~wok THEN ReturnNil(frame)
                                  ELSE [frame EXCEPT !.pc = "passthrough"]
                 /\ env' = env
            ELSE /\ store' = m.mocks
                 /\ c2d' = c2d
                 /\ \E wok \in BOOLEAN :
                      /\ wfail' = (wfail \/ ~wok)
                      /\ events' = IF wok
                                   THEN Append(events, [ev |-> "response", stub |-> m.stub,
                                                        written |-> SynthResponse(m.stub)])
                                   ELSE events
                      /\ env' = IF wok THEN ClientGotFinal(env) ELSE env
                      /\ frame' = IF wok THEN [frame EXCEPT !.pc = "readNext"]
                                  ELSE ReturnNil(frame)
    /\ UNCHANGED <<trackerVars, recorderVars, coreVars, utilVars, serviceVars>>
    /\ UNCHANGED <<mode, destNil, truth, d2c, goPending, appended, parsed>>

\* util.Passthrough: what the destination answers goes to the client as it is
DecPassthrough ==
    /\ mode = MODE_TEST /\ frame.pc = "passthrough"
    /\ \E o \in ReadBytesDest(env, Relayed(c2d), FALSE), wok \in BOOLEAN :
        /\ env' = o.env
        /\ d2c' = Relay(d2c, o.data, IF wok THEN o.data ELSE <<>>)
        /\ o.data = <<>> => wok
        /\ wfail' = (wfail \/ ~wok)
        /\ frame' = IF o.err # "nil" \/ ~wok THEN ReturnNil(frame) ELSE frame
    /\ UNCHANGED <<trackerVars, recorderVars, coreVars, utilVars, serviceVars>>
    /\ UNCHANGED <<mode, destNil, truth, c2d, goPending, appended, parsed,
                   store, events>>

\* read the next request of the connection
DecReadNext ==
    /\ mode = MODE_TEST /\ frame.pc = "readNext"
    /\ \E o \in ReadBytesClient(env, Relayed(d2c), FALSE) :
        /\ env' = o.env
        /\ truth' = IF o.env.k > env.k THEN Append(truth, o.env.ex) ELSE truth
        /\ c2d' = Relay(c2d, o.data, <<>>)
        /\ frame' = IF o.err # "nil" THEN ReturnNil(frame)
                    ELSE [frame EXCEPT !.finalReq = o.data, !.pc = "loop"]
    /\ UNCHANGED <<trackerVars, recorderVars, coreVars, utilVars, serviceVars>>
    /\ UNCHANGED <<mode, destNil, d2c, wfail, goPending, appended, parsed,
                   store, events>>

NextReplay ==
    \/ ProcessOutgoingTest
    \/ DecStart
    \/ DecLoopHead
    \/ DecExpect100
    \/ HcReqReadHeader
    \/ HcReqFrame
    \/ ClReqRead
    \/ ChReqRead
    \/ DecMatch
    \/ DecPassthrough
    \/ DecReadNext

----------------------------------------------------------------------------
(* package core: Core.Hook and Core.Run *)

Modes == {"MODE_RECORD", "MODE_TEST"}

\* pass-through port and host lists, by name
PassThroughLists == {"none", "listA", "listB"}

\* the first call of Hook that fails, or the context found done
HookFaults ==
    { "no fault", "getApp", "ctx.Done", "ErrGroupKey", "Load", "ctx.Done again",
      "StartProxy", "setupNsswitchConfig" }

NoHookCall == [fault |-> "no call"]

\* core.New: proxyStarted is false. passThrough stands for the pass-through
\* ports and hosts the proxy works with; loads, starts and calls count the
\* successful hook.Load and proxy.StartProxy calls and the calls of Hook,
\* last describes the last call of Hook.
NewCore ==
    [ proxyStarted |-> FALSE,
      passThrough  |-> "none",
      loads        |-> 0,
      starts       |-> 0,
      calls        |-> 0,
      last         |-> NoHookCall ]

\* a return of Core.Hook: the Core it leaves, the error, and whether the
\* goroutine that tears the proxy and the hooks down was started
HookResult(c, err, teardown) == [core |-> c, err |-> err, teardown |-> teardown]

\* variant of the second half of Hook that starts the proxy without a look
\* at proxyStarted
StartProxyUnguarded(c, opts, fault) ==
    IF fault \in {"ctx.Done again", "StartProxy"}
    THEN HookResult(c, IF fault = "StartProxy" THEN "hookErr" ELSE "context.Canceled",
                    TRUE)
    ELSE HookResult([c EXCEPT !.proxyStarted = TRUE, !.starts = @ + 1],
                    IF opts.Mode = "MODE_TEST" /\ fault = "setupNsswitchConfig"
                    THEN "setupNsswitchConfig" ELSE "nil", TRUE)

\* Core.Hook after the hooks were loaded: the proxy
StartProxy(c, opts, fault) ==
    IF c.proxyStarted THEN HookResult(c, "nil", TRUE)
    ELSE IF fault = "ctx.Done again" THEN HookResult(c, "context.Canceled", TRUE)
    ELSE IF fault = "StartProxy" THEN HookResult(c, "hookErr", TRUE)
    ELSE HookResult([c EXCEPT !.proxyStarted = TRUE, !.starts = @ + 1],
                    IF opts.Mode = "MODE_TEST" /\ fault = "setupNsswitchConfig"
                    THEN "setupNsswitchConfig" ELSE "nil", TRUE)

\* variant of Hook that goes on to the proxy after hook.Load has failed
HookLoadUnchecked(c, opts, fault) ==
    IF fault = "getApp" THEN HookResult(c, "hookErr", FALSE)
    ELSE IF fault = "ctx.Done" THEN HookResult(c, "context.Canceled", FALSE)
    ELSE IF fault = "ErrGroupKey" THEN HookResult(c, "ErrGroupKey", FALSE)
    ELSE IF fault = "Load"
    THEN [StartProxy(c, opts, "no fault") EXCEPT !.err = "hookErr"]
    ELSE StartProxy([c EXCEPT !.loads = @ + 1], opts, fault)

\* Core.Hook
Hook(c, opts, fault) ==
    IF fault = "getApp" THEN HookResult(c, "hookErr", FALSE)
    ELSE IF fault = "ctx.Done" THEN HookResult(c, "context.Canceled", FALSE)
    ELSE IF fault = "ErrGroupKey" THEN HookResult(c, "ErrGroupKey", FALSE)
    ELSE IF fault = "Load" THEN HookResult(c, "hookErr", TRUE)
    ELSE StartProxy([c EXCEPT !.loads = @ + 1], opts, fault)

\* history of a call of Hook: the options, the pass-through lists the
\* caller is configured with, the fault, the error returned and
\* proxyStarted as the call found it
Called(c, before, opts, lists, fault, err) ==
    [c EXCEPT !.calls = @ + 1,
              !.last = [ opts |-> opts, lists |-> lists, fault |-> fault, err |-> err,
                         proxyStarted |-> before.proxyStarted,
                         passThrough |-> before.passThrough ]]

\* a caller invokes Hook on the Core
CoreHook ==
    /\ core.calls < MaxHookCalls
    /\ \E m \in Modes, lists \in PassThroughLists, fault \in HookFaults :
         LET opts == [Mode |-> m]
             h == Hook(core, opts, fault)
         IN core' = Called(h.core, core, opts, lists, fault, h.err)
    /\ UNCHANGED run
    /\ UNCHANGED <<trackerVars, httpVars, recorderVars, utilVars, serviceVars>>

AppKinds == {"Native", "Docker", "DockerCompose"}

\* Core.Run is not called yet. inode and app are the two goroutines of
\* runAppErrGrp, inodeSent says that a.Run has sent on inodeChan.
NewRun ==
    [ pc         |-> "idle",
      kind       |-> "Native",
      ctxDone    |-> FALSE,
      inode      |-> "none",
      app        |-> "none",
      inodeSent  |-> FALSE,
      appErrCh   |-> <<>>,
      closed     |-> FALSE,      \* appErrCh is closed
      inodeErrCh |-> <<>>,
      ret        |-> "none" ]

InitCore ==
    /\ core = NewCore
    /\ run = NewRun

RunOthers ==
    /\ UNCHANGED core
    /\ UNCHANGED <<trackerVars, httpVars, recorderVars, utilVars, serviceVars>>

\* Core.Run up to its select: getApp, the channels, the two goroutines
RunCall ==
    /\ run.pc = "idle"
    /\ \E ok \in BOOLEAN, kind \in AppKinds :
         run' = IF ok
                THEN [run EXCEPT !.pc = "select", !.kind = kind,
                                 !.inode = "start", !.app = "running"]
                ELSE [run EXCEPT !.pc = "returned", !.kind = kind,
                                 !.ret = "ErrInternal"]
    /\ RunOthers

\* the first goroutine: return nil for a native application, wait for the
\* inode otherwise
InodeStart ==
    /\ run.inode = "start"
    /\ run' = [run EXCEPT !.inode = IF run.kind = "Native" THEN "done" ELSE "receive"]
    /\ RunOthers

\* a.Run sends the inode of the container on inodeChan, which has no buffer
AppSendsInode ==
    /\ run.app = "running" /\ run.kind # "Native"
    /\ run.inode = "receive" /\ ~run.inodeSent
    /\ run' = [run EXCEPT !.inode = "SendInode", !.inodeSent = TRUE]
    /\ RunOthers

\* c.hook.SendInode
InodeSendInode ==
    /\ run.inode = "SendInode"
    /\ \E ok \in BOOLEAN :
         run' = [run EXCEPT !.inode = "done",
                            !.inodeErrCh = IF ok THEN @
                                           ELSE Append(@, "failed to send inode")]
    /\ RunOthers

\* a.Run returns: the application has ended, or runAppCtx is cancelled
AppExits ==
    /\ run.app = "running"
    /\ \E t \in {"ErrCommandError", "ErrUnExpected", "ErrAppStopped", "nil"} :
         run' = [run EXCEPT !.app = "done", !.closed = TRUE,
                            !.appErrCh = IF t = "nil" THEN @ ELSE Append(@, t)]
    /\ RunOthers

\* the context of the caller is cancelled
RunCtxCancel ==
    /\ run.pc \in {"select", "wait"} /\ ~run.ctxDone
    /\ run' = [run EXCEPT !.ctxDone = TRUE]
    /\ RunOthers

\* the select of Core.Run
RunSelect ==
    /\ run.pc = "select"
    /\ \/ /\ run.ctxDone
          /\ run' = [run EXCEPT !.pc = "wait", !.ret = "ErrCtxCanceled"]
       \/ /\ run.appErrCh # <<>>
          /\ run' = [run EXCEPT !.pc = "wait", !.ret = Head(run.appErrCh),
                                !.appErrCh = Tail(@)]
       \/ /\ run.appErrCh = <<>> /\ run.closed
          /\ run' = [run EXCEPT !.pc = "wait", !.ret = "zero AppError"]
       \/ /\ run.inodeErrCh # <<>>
          /\ run' = [run EXCEPT !.pc = "wait", !.ret = "ErrInternal",
                                !.inodeErrCh = Tail(@)]
    /\ RunOthers

\* variant of the deferred function that does not wait for the goroutines
RunWaitNever ==
    /\ run.pc = "wait"
    /\ run' = [run EXCEPT !.pc = "returned"]
    /\ RunOthers

\* the deferred function: runAppErrGrp.Wait(), then the closes
RunWait ==
    /\ run.pc = "wait"
    /\ run.inode = "done" /\ run.app = "done"
    /\ run' = [run EXCEPT !.pc = "returned"]
    /\ RunOthers

NextCore ==
    \/ CoreHook

NextCoreRun ==
    \/ RunCall
    \/ InodeStart
    \/ AppSendsInode
    \/ InodeSendInode
    \/ AppExits
    \/ RunCtxCancel
    \/ RunSelect
    \/ RunWait
----------------------------------------------------------------------------
(* package record: recorder.Start, its goroutines and its deferred calls *)

AppErrorTypes == {"ErrCommandError", "ErrUnExpected", "ErrInternal",
                  "ErrAppStopped", "ErrOther"}

\* models.AppError{}, the zero value: what Core.Run receives from appErrCh,
\* closed without a send, when the application returned with a nil Err
ZeroAppError == ""

NewRecorder ==
    [ pc            |-> "GetAllTestSetIDs",
      ret           |-> "none",     \* what Start returns: "nil", "err" (an error made by
                                    \* fmt.Errorf) or "context.Canceled"
      stopReason    |-> "",
      ctxDone       |-> FALSE,      \* ctx.Done() is closed
      runAppCtxDone |-> FALSE,
      hookCtxDone   |-> FALSE,
      closed        |-> FALSE,      \* the three error channels are closed
      recordTimer   |-> FALSE ]     \* r.config.Record.RecordTimer != 0

\* the goroutines: "none" (not started), "running", "sending" (at a channel
\* send), "done", "panic" (sent on a closed channel)
NoWorkers ==
    [ test |-> "none", mock |-> "none", app |-> "none", timer |-> "none",
      hooks |-> "none" ]

NewChans ==
    [ appErrChan        |-> <<>>,
      insertTestErrChan |-> <<>>,
      insertMockErrChan |-> <<>>,
      incoming          |-> MaxFrames,   \* test cases the stream still holds
      outgoing          |-> MaxFrames,   \* mocks the stream still holds
      appErr            |-> "none" ]     \* the AppError the runner holds

InitRecorder ==
    /\ rec = NewRecorder
    /\ workers = NoWorkers
    /\ chans = NewChans
    /\ steps = <<>>

\* return from the body of Start: the deferred calls run next
Return(r, ret, reason) ==
    [r EXCEPT !.pc = "deferClose", !.ret = ret, !.stopReason = reason]

\* utils.Stop: cancels the top-level context
Stop(r) == [r EXCEPT !.ctxDone = TRUE]

\* the deferred stop function, first statement: telemetry if the context
\* is done, utils.Stop otherwise
DeferredFirst(r) == IF r.ctxDone THEN "RecordedTestSuite" ELSE "Stop"

Finished(w) == w \in {"none", "done", "panic"}

\* Start is entered; the configuration has a record timer or not
RecGetAllTestSetIDs ==
    /\ rec.pc = "GetAllTestSetIDs"
    /\ \E ok \in BOOLEAN, timer \in BOOLEAN :
         rec' = IF ok THEN [rec EXCEPT !.pc = "Setup", !.recordTimer = timer]
                ELSE Return(rec, "err", "failed to get testSetIds")
    /\ UNCHANGED <<workers, chans, steps>>
    /\ UNCHANGED <<trackerVars, httpVars, coreVars, utilVars, serviceVars>>

\* variant in which Start goes on to hook after Setup has failed
RecSetupUnchecked ==
    /\ rec.pc = "Setup"
    /\ \E ok \in BOOLEAN :
         rec' = [rec EXCEPT !.pc = "Hook",
                            !.stopReason = IF ok THEN @
                                           ELSE "failed setting up the environment"]
    /\ UNCHANGED <<workers, chans, steps>>
    /\ UNCHANGED <<trackerVars, httpVars, coreVars, utilVars, serviceVars>>

RecSetup ==
    /\ rec.pc = "Setup"
    /\ \E ok \in BOOLEAN :
         rec' = IF ok THEN [rec EXCEPT !.pc = "Hook"]
                ELSE Return(rec, "err", "failed setting up the environment")
    /\ UNCHANGED <<workers, chans, steps>>
    /\ UNCHANGED <<trackerVars, httpVars, coreVars, utilVars, serviceVars>>

\* the faults Core.Hook can meet when Start calls it: hookCtx is not
\* cancelled and carries hookErrGrp, the mode is MODE_RECORD
StartHookFaults == {"no fault", "getApp", "Load", "StartProxy"}

\* the check of ctx.Done() and Core.Hook
RecHook ==
    /\ rec.pc = "Hook"
    /\ IF rec.ctxDone
       THEN /\ rec' = Return(rec, "nil", "")
            /\ UNCHANGED <<workers, core>>
       ELSE \E fault \in StartHookFaults :
            LET opts == [Mode |-> "MODE_RECORD"]
                h == Hook(core, opts, fault)
            IN /\ core' = Called(h.core, core, opts, "none", fault, h.err)
               /\ rec' = IF h.err = "nil" THEN [rec EXCEPT !.pc = "GetIncoming"]
                         ELSE Return(rec, IF h.err = "context.Canceled" THEN h.err
                                          ELSE "err",
                                     "failed to start the hooks and proxy")
               /\ workers' = IF h.teardown THEN [workers EXCEPT !.hooks = "running"]
                             ELSE workers
    /\ UNCHANGED <<chans, steps>>
    /\ UNCHANGED run
    /\ UNCHANGED <<trackerVars, httpVars, utilVars, serviceVars>>

\* GetIncoming and the goroutine that stores the test cases
RecGetIncoming ==
    /\ rec.pc = "GetIncoming"
    /\ \E out \in {"ok", "err"} \cup (IF rec.ctxDone THEN {"canceled"} ELSE {}) :
         /\ rec' = IF out = "ok" THEN [rec EXCEPT !.pc = "GetOutgoing"]
                   ELSE Return(rec, IF out = "canceled" THEN "context.Canceled" ELSE "err",
                               "failed to get incoming frames")
         /\ workers' = IF out = "ok" THEN [workers EXCEPT !.test = "running"]
                       ELSE workers
    /\ UNCHANGED <<chans, steps>>
    /\ UNCHANGED <<trackerVars, httpVars, coreVars, utilVars, serviceVars>>

\* GetOutgoing and the goroutine that stores the mocks
RecGetOutgoing ==
    /\ rec.pc = "GetOutgoing"
    /\ \E out \in {"ok", "err"} \cup (IF rec.ctxDone THEN {"canceled"} ELSE {}) :
         /\ rec' = IF out = "ok" THEN [rec EXCEPT !.pc = "Run"]
                   ELSE Return(rec, IF out = "canceled" THEN "context.Canceled" ELSE "err",
                               "failed to get outgoing frames")
         /\ workers' = IF out = "ok" THEN [workers EXCEPT !.mock = "running"]
                       ELSE workers
    /\ UNCHANGED <<chans, steps>>
    /\ UNCHANGED <<trackerVars, httpVars, coreVars, utilVars, serviceVars>>

\* variant in which the timer goroutine is started whatever the value of
\* RecordTimer
RecRunTimerAlways ==
    /\ rec.pc = "Run"
    /\ rec' = [rec EXCEPT !.pc = "select"]
    /\ workers' = [workers EXCEPT !.app = "running", !.timer = "running"]
    /\ UNCHANGED <<chans, steps>>
    /\ UNCHANGED <<trackerVars, httpVars, coreVars, utilVars, serviceVars>>

\* the goroutine that runs the application, and the timer goroutine
RecRun ==
    /\ rec.pc = "Run"
    /\ rec' = [rec EXCEPT !.pc = "select"]
    /\ workers' = [workers EXCEPT !.app = "running",
                                  !.timer = IF rec.recordTimer THEN "running" ELSE @]
    /\ UNCHANGED <<chans, steps>>
    /\ UNCHANGED <<trackerVars, httpVars, coreVars, utilVars, serviceVars>>

\* variant of the switch in which every kind of AppError ends the session
\* without an error
AppErrorIgnored(r, t) ==
    Return(r, "nil", "user application terminated unexpectedly")

\* the switch on appErr.AppErrorType and the return that follows it
AppErrorSwitch(r, t) ==
    IF t = "ErrAppStopped"
    THEN Return(r, "nil", "user application terminated unexpectedly")
    ELSE IF t \in {"ErrCommandError", "ErrUnExpected", "ErrInternal"}
    THEN Return(r, "err", t)
    ELSE Return(r, "err", "unknown error recieved from application")

\* the final select of Start
RecSelect ==
    /\ rec.pc = "select"
    /\ \/ /\ chans.appErrChan # <<>>
          /\ chans' = [chans EXCEPT !.appErrChan = Tail(@)]
          /\ rec' = AppErrorSwitch(rec, Head(chans.appErrChan))
       \/ /\ chans.insertTestErrChan # <<>>
          /\ chans' = [chans EXCEPT !.insertTestErrChan = Tail(@)]
          /\ rec' = Return(rec, "err", "error while inserting test case into db")
       \/ /\ chans.insertMockErrChan # <<>>
          /\ chans' = [chans EXCEPT !.insertMockErrChan = Tail(@)]
          /\ rec' = Return(rec, "err", "error while inserting mock into db")
       \/ /\ rec.ctxDone
          /\ rec' = Return(rec, "nil", rec.stopReason)
          /\ UNCHANGED chans
    /\ UNCHANGED <<workers, steps>>
    /\ UNCHANGED <<trackerVars, httpVars, coreVars, utilVars, serviceVars>>

\* deferred: close(insertMockErrChan), close(insertTestErrChan), close(appErrChan)
RecDeferClose ==
    /\ rec.pc = "deferClose"
    /\ rec' = [rec EXCEPT !.pc = "deferStop", !.closed = TRUE]
    /\ UNCHANGED <<workers, chans, steps>>
    /\ UNCHANGED <<trackerVars, httpVars, coreVars, utilVars, serviceVars>>

\* deferred stop function: the select on ctx.Done()
RecDeferStop ==
    /\ rec.pc = "deferStop"
    /\ steps' = Append(steps, DeferredFirst(rec))
    /\ rec' = [(IF rec.ctxDone THEN rec ELSE Stop(rec)) EXCEPT !.pc = "runAppCtxCancel"]
    /\ UNCHANGED <<workers, chans>>
    /\ UNCHANGED <<trackerVars, httpVars, coreVars, utilVars, serviceVars>>

RecRunAppCtxCancel ==
    /\ rec.pc = "runAppCtxCancel"
    /\ steps' = Append(steps, "runAppCtxCancel")
    /\ rec' = [rec EXCEPT !.pc = "runAppErrGrp.Wait", !.runAppCtxDone = TRUE]
    /\ UNCHANGED <<workers, chans>>
    /\ UNCHANGED <<trackerVars, httpVars, coreVars, utilVars, serviceVars>>

RecRunAppWait ==
    /\ rec.pc = "runAppErrGrp.Wait"
    /\ Finished(workers.app)
    /\ steps' = Append(steps, "runAppErrGrp.Wait")
    /\ rec' = [rec EXCEPT !.pc = "hookCtxCancel"]
    /\ UNCHANGED <<workers, chans>>
    /\ UNCHANGED <<trackerVars, httpVars, coreVars, utilVars, serviceVars>>

RecHookCtxCancel ==
    /\ rec.pc = "hookCtxCancel"
    /\ steps' = Append(steps, "hookCtxCancel")
    /\ rec' = [rec EXCEPT !.pc = "hookErrGrp.Wait", !.hookCtxDone = TRUE]
    /\ UNCHANGED <<workers, chans>>
    /\ UNCHANGED <<trackerVars, httpVars, coreVars, utilVars, serviceVars>>

RecHookWait ==
    /\ rec.pc = "hookErrGrp.Wait"
    /\ Finished(workers.hooks)
    /\ steps' = Append(steps, "hookErrGrp.Wait")
    /\ rec' = [rec EXCEPT !.pc = "errGrp.Wait"]
    /\ UNCHANGED <<workers, chans>>
    /\ UNCHANGED <<trackerVars, httpVars, coreVars, utilVars, serviceVars>>

RecErrGrpWait ==
    /\ rec.pc = "errGrp.Wait"
    /\ Finished(workers.test) /\ Finished(workers.mock) /\ Finished(workers.timer)
    /\ steps' = Append(steps, "errGrp.Wait")
    /\ rec' = [rec EXCEPT !.pc = "returned"]
    /\ UNCHANGED <<workers, chans>>
    /\ UNCHANGED <<trackerVars, httpVars, coreVars, utilVars, serviceVars>>

\* the top-level context is cancelled from outside (a signal)
CtxCancel ==
    /\ rec.pc # "returned" /\ ~rec.ctxDone
    /\ rec' = [rec EXCEPT !.ctxDone = TRUE]
    /\ UNCHANGED <<workers, chans, steps>>
    /\ UNCHANGED <<trackerVars, httpVars, coreVars, utilVars, serviceVars>>

\* the teardown goroutine of Core.Hook wakes up on hookCtx.Done()
HooksTeardown ==
    /\ workers.hooks = "running" /\ rec.hookCtxDone
    /\ workers' = [workers EXCEPT !.hooks = "done"]
    /\ UNCHANGED <<rec, chans, steps>>
    /\ UNCHANGED <<trackerVars, httpVars, coreVars, utilVars, serviceVars>>

\* Instrumentation.Run returns
AppReturns ==
    /\ workers.app = "running"
    /\ \/ /\ rec.runAppCtxDone
          /\ workers' = [workers EXCEPT !.app = "done"]
          /\ UNCHANGED chans
       \/ \E t \in AppErrorTypes \cup {ZeroAppError} :
          /\ workers' = [workers EXCEPT !.app = "sending"]
          /\ chans' = [chans EXCEPT !.appErr = t]
    /\ UNCHANGED <<rec, steps>>
    /\ UNCHANGED <<trackerVars, httpVars, coreVars, utilVars, serviceVars>>

\* appErrChan <- runAppError
AppSend ==
    /\ workers.app = "sending"
    /\ rec.closed \/ Len(chans.appErrChan) < AppErrChanCap
    /\ IF rec.closed
       THEN /\ workers' = [workers EXCEPT !.app = "panic"]
            /\ UNCHANGED chans
       ELSE /\ workers' = [workers EXCEPT !.app = "done"]
            /\ chans' = [chans EXCEPT !.appErrChan = Append(@, chans.appErr),
                                      !.appErr = "none"]
    /\ UNCHANGED <<rec, steps>>
    /\ UNCHANGED <<trackerVars, httpVars, coreVars, utilVars, serviceVars>>

\* the test-case consumer takes one test case and inserts it
TestInsert ==
    /\ workers.test = "running" /\ chans.incoming > 0
    /\ chans' = [chans EXCEPT !.incoming = @ - 1]
    /\ \E out \in {"ok", "err"} \cup (IF rec.ctxDone THEN {"canceled"} ELSE {}) :
         workers' = IF out = "err" THEN [workers EXCEPT !.test = "sending"]
                    ELSE workers
    /\ UNCHANGED <<rec, steps>>
    /\ UNCHANGED <<trackerVars, httpVars, coreVars, utilVars, serviceVars>>

\* insertTestErrChan <- err
TestSend ==
    /\ workers.test = "sending"
    /\ rec.closed \/ Len(chans.insertTestErrChan) < InsertErrChanCap
    /\ IF rec.closed
       THEN /\ workers' = [workers EXCEPT !.test = "panic"]
            /\ UNCHANGED chans
       ELSE /\ workers' = [workers EXCEPT !.test = "running"]
            /\ chans' = [chans EXCEPT !.insertTestErrChan = Append(@, "err")]
    /\ UNCHANGED <<rec, steps>>
    /\ UNCHANGED <<trackerVars, httpVars, coreVars, utilVars, serviceVars>>

\* the stream of test cases is closed: the range loop ends
TestEnd ==
    /\ workers.test = "running"
    /\ rec.ctxDone \/ workers.hooks = "done"
    /\ workers' = [workers EXCEPT !.test = "done"]
    /\ UNCHANGED <<rec, chans, steps>>
    /\ UNCHANGED <<trackerVars, httpVars, coreVars, utilVars, serviceVars>>

\* the mock consumer takes one mock and inserts it
MockInsert ==
    /\ workers.mock = "running" /\ chans.outgoing > 0
    /\ chans' = [chans EXCEPT !.outgoing = @ - 1]
    /\ \E out \in {"ok", "err"} \cup (IF rec.ctxDone THEN {"canceled"} ELSE {}) :
         workers' = IF out = "err" THEN [workers EXCEPT !.mock = "sending"]
                    ELSE workers
    /\ UNCHANGED <<rec, steps>>
    /\ UNCHANGED <<trackerVars, httpVars, coreVars, utilVars, serviceVars>>

\* insertMockErrChan <- err
MockSend ==
    /\ workers.mock = "sending"
    /\ rec.closed \/ Len(chans.insertMockErrChan) < InsertErrChanCap
    /\ IF rec.closed
       THEN /\ workers' = [workers EXCEPT !.mock = "panic"]
            /\ UNCHANGED chans
       ELSE /\ workers' = [workers EXCEPT !.mock = "running"]
            /\ chans' = [chans EXCEPT !.insertMockErrChan = Append(@, "err")]
    /\ UNCHANGED <<rec, steps>>
    /\ UNCHANGED <<trackerVars, httpVars, coreVars, utilVars, serviceVars>>

MockEnd ==
    /\ workers.mock = "running"
    /\ rec.ctxDone \/ workers.hooks = "done"
    /\ workers' = [workers EXCEPT !.mock = "done"]
    /\ UNCHANGED <<rec, chans, steps>>
    /\ UNCHANGED <<trackerVars, httpVars, coreVars, utilVars, serviceVars>>

\* the record timer expires: utils.Stop("Time up! Stopping keploy")
TimerFires ==
    /\ workers.timer = "running"
    /\ workers' = [workers EXCEPT !.timer = "done"]
    /\ rec' = Stop(rec)
    /\ steps' = Append(steps, "TimeUp")
    /\ UNCHANGED chans
    /\ UNCHANGED <<trackerVars, httpVars, coreVars, utilVars, serviceVars>>

\* the timer goroutine sees ctx.Done()
TimerCancelled ==
    /\ workers.timer = "running" /\ rec.ctxDone
    /\ workers' = [workers EXCEPT !.timer = "done"]
    /\ UNCHANGED <<rec, chans, steps>>
    /\ UNCHANGED <<trackerVars, httpVars, coreVars, utilVars, serviceVars>>

NextRecorder ==
    \/ RecGetAllTestSetIDs
    \/ RecSetup
    \/ RecHook
    \/ RecGetIncoming
    \/ RecGetOutgoing
    \/ RecRun
    \/ RecSelect
    \/ RecDeferClose
    \/ RecDeferStop
    \/ RecRunAppCtxCancel
    \/ RecRunAppWait
    \/ RecHookCtxCancel
    \/ RecHookWait
    \/ RecErrGrpWait
    \/ CtxCancel
    \/ HooksTeardown
    \/ AppReturns
    \/ AppSend
    \/ TestInsert
    \/ TestSend
    \/ TestEnd
    \/ MockInsert
    \/ MockSend
    \/ MockEnd
    \/ TimerFires
    \/ TimerCancelled


----------------------------------------------------------------------------
(* package record: recorder.StartMock, its error group and its deferred    *)
(* function                                                                *)

\* goroutines of g: "none" (not started), "running", "sending" (at the send
\* on insertMockErrChan, which has no buffer), "done"
NewStartMock ==
    [ pc        |-> "Setup",
      ret       |-> "none",      \* "nil", "err" or "context.Canceled"
      ctxDone   |-> FALSE,       \* ctx.Done() is closed
      outgoing  |-> MaxMocks,    \* mocks the stream still holds
      hooks     |-> "none",      \* the goroutine Core.Hook adds to g
      ranger    |-> "none",      \* the goroutine that ranges over outgoingChan
      inserters |-> <<>>,        \* one goroutine per mock, in order of arrival
      received  |-> 0 ]          \* errors Start received from insertMockErrChan

InitStartMock == smock = NewStartMock

MockOthers == UNCHANGED <<trackerVars, httpVars, recorderVars, coreVars, utilVars, td, serve>>

\* return from the body of StartMock: the deferred function runs next
MockReturn(s, ret) == [s EXCEPT !.pc = "deferStop", !.ret = ret]

\* every goroutine of g has returned
GroupDone(s) ==
    /\ s.hooks \in {"none", "done"}
    /\ s.ranger \in {"none", "done"}
    /\ \A i \in 1..Len(s.inserters) : s.inserters[i] = "done"

\* the caller, or a signal, cancels the context
MockCtxCancel ==
    /\ smock.pc # "returned" /\ ~smock.ctxDone
    /\ smock' = [smock EXCEPT !.ctxDone = TRUE]
    /\ MockOthers

MockSetup ==
    /\ smock.pc = "Setup"
    /\ \E ok \in BOOLEAN :
         smock' = IF ok THEN [smock EXCEPT !.pc = "Hook"] ELSE MockReturn(smock, "err")
    /\ MockOthers

\* r.instrumentation.Hook(ctx, ...): Core.Hook adds its tear-down goroutine
\* to g, the group it finds in ctx, before it loads the hooks
MockHook ==
    /\ smock.pc = "Hook"
    /\ \E ok \in BOOLEAN, started \in BOOLEAN :
         smock' = IF ok
                  THEN [smock EXCEPT !.pc = "GetOutgoing", !.hooks = "running"]
                  ELSE MockReturn([smock EXCEPT !.hooks = IF started THEN "running"
                                                          ELSE "none"], "err")
    /\ MockOthers

\* the tear-down goroutine of Core.Hook ends once ctx is done
MockHooksEnd ==
    /\ smock.hooks = "running" /\ smock.ctxDone
    /\ smock' = [smock EXCEPT !.hooks = "done"]
    /\ MockOthers

MockGetOutgoing ==
    /\ smock.pc = "GetOutgoing"
    /\ \E out \in {"ok", "err"} \cup (IF smock.ctxDone THEN {"canceled"} ELSE {}) :
         smock' = CASE out = "ok" -> [smock EXCEPT !.pc = "select", !.ranger = "running"]
                    [] out = "err" -> MockReturn(smock, "err")
                    [] OTHER -> MockReturn(smock, "context.Canceled")
    /\ MockOthers

\* for mock := range outgoingChan { g.Go(...) }
MockRange ==
    /\ smock.ranger = "running" /\ smock.outgoing > 0
    /\ smock' = [smock EXCEPT !.outgoing = @ - 1,
                              !.inserters = Append(@, "running")]
    /\ MockOthers

\* the stream is closed once ctx is done: the range loop ends
MockRangeEnd ==
    /\ smock.ranger = "running" /\ smock.ctxDone
    /\ smock' = [smock EXCEPT !.ranger = "done"]
    /\ MockOthers

\* r.mockDB.InsertMock returns in one of the goroutines
MockInsertMock ==
    \E i \in 1..Len(smock.inserters), ok \in BOOLEAN :
        /\ smock.inserters[i] = "running"
        /\ smock' = [smock EXCEPT !.inserters[i] = IF ok THEN "done" ELSE "sending"]
        /\ MockOthers

\* the goroutines the select of StartMock can receive from
MockSelectSenders(s) == { i \in 1..Len(s.inserters) : s.inserters[i] = "sending" }

\* select { case err = <-insertMockErrChan: ... case <-ctx.Done(): return nil }
MockSelect ==
    /\ smock.pc = "select"
    /\ \/ \E i \in MockSelectSenders(smock) :
            smock' = MockReturn([smock EXCEPT !.inserters[i] = "done",
                                              !.received = @ + 1], "err")
       \/ /\ smock.ctxDone
          /\ smock' = MockReturn(smock, "nil")
    /\ MockOthers

\* the deferred function: utils.Stop unless ctx is done
MockDeferStop ==
    /\ smock.pc = "deferStop"
    /\ smock' = [smock EXCEPT !.pc = "deferWait", !.ctxDone = TRUE]
    /\ MockOthers

\* g.Wait() returns, and StartMock with it
MockDeferWait ==
    /\ smock.pc = "deferWait"
    /\ GroupDone(smock)
    /\ smock' = [smock EXCEPT !.pc = "returned"]
    /\ MockOthers

NextStartMock ==
    \/ MockCtxCancel
    \/ MockSetup
    \/ MockHook
    \/ MockHooksEnd
    \/ MockGetOutgoing
    \/ MockRange
    \/ MockRangeEnd
    \/ MockInsertMock
    \/ MockSelect
    \/ MockDeferStop
    \/ MockDeferWait

----------------------------------------------------------------------------
(* package core: the goroutine Core.Hook adds to the caller's error group  *)
(* to tear the proxy and the hooks down                                    *)

\* Hook is not called yet. proxyTasks and hookTasks count the goroutines of
\* proxyErrGrp and hookErrGrp that have not returned; log is the history of
\* what the tear-down goroutine did.
NewTearDown ==
    [ pc            |-> "idle",
      mode          |-> "MODE_RECORD",
      ctxDone       |-> FALSE,
      proxyCtxDone  |-> FALSE,
      hookCtxDone   |-> FALSE,
      proxyTasks    |-> 0,
      hookTasks     |-> 0,
      proxyErr      |-> FALSE,   \* a goroutine of proxyErrGrp returned an error
      hookErr       |-> FALSE,   \* a goroutine of hookErrGrp returned an error
      hostConfigStr |-> "",
      ret           |-> "none",
      log           |-> <<>> ]

InitTearDown == td = NewTearDown

TearDownOthers ==
    UNCHANGED <<trackerVars, httpVars, recorderVars, coreVars, utilVars, smock,
                serve>>

\* variant: Wait returns while goroutines of the group still run
WaitReturnsAtOnce(tasks) == TRUE

\* errgroup.Group.Wait returns once every goroutine of the group has returned
WaitReturns(tasks) == tasks = 0

\* Hook is called on a new Core and returns; the goroutine is started unless
\* Hook returned before g.Go. The proxy has goroutines when StartProxy
\* succeeded, the hooks when Load succeeded; hostConfigStr is set when
\* setupNsswitchConfig found a hosts line.
TdHook ==
    /\ td.pc = "idle"
    /\ \E m \in Modes, fault \in HookFaults, np \in 1..MaxTasks, nh \in 1..MaxTasks,
          hosts \in {"", "hosts: files dns"} :
         LET h == Hook(NewCore, [Mode |-> m], fault) IN
         td' = [td EXCEPT
                  !.pc = IF h.teardown THEN "waitCtx" ELSE "notStarted",
                  !.mode = m,
                  !.proxyTasks = IF h.core.starts > 0 THEN np ELSE 0,
                  !.hookTasks = IF h.core.loads > 0 THEN nh ELSE 0,
                  !.hostConfigStr = IF m = "MODE_TEST" /\ h.err = "nil"
                                    THEN hosts ELSE ""]
    /\ TearDownOthers

\* the context passed to Hook is cancelled
TdCtxCancel ==
    /\ td.pc # "idle" /\ ~td.ctxDone
    /\ td' = [td EXCEPT !.ctxDone = TRUE]
    /\ TearDownOthers

\* <-ctx.Done(); proxyCtxCancel()
TdProxyCtxCancel ==
    /\ td.pc = "waitCtx" /\ td.ctxDone
    /\ td' = [td EXCEPT !.pc = "proxyWait", !.proxyCtxDone = TRUE,
                        !.log = Append(@, "proxyCtxCancel")]
    /\ TearDownOthers

\* a goroutine of the proxy returns, with an error or without: its context
\* is done, or it failed on its own
TdProxyTaskEnds ==
    /\ td.proxyTasks > 0
    /\ \E failed \in BOOLEAN :
         /\ ~td.proxyCtxDone => failed
         /\ td' = [td EXCEPT !.proxyTasks = @ - 1, !.proxyErr = @ \/ failed]
    /\ TearDownOthers

\* err = proxyErrGrp.Wait(); hookCtxCancel()
TdHookCtxCancel ==
    /\ td.pc = "proxyWait" /\ WaitReturns(td.proxyTasks)
    /\ td' = [td EXCEPT !.pc = "hookWait", !.hookCtxDone = TRUE,
                        !.log = @ \o <<"proxyErrGrp.Wait">>
                                  \o (IF td.proxyErr THEN <<"failed to stop the proxy">>
                                      ELSE <<>>)
                                  \o <<"hookCtxCancel">>]
    /\ TearDownOthers

\* a goroutine of the hooks returns, with an error or without
TdHookTaskEnds ==
    /\ td.hookTasks > 0
    /\ \E failed \in BOOLEAN :
         /\ ~td.hookCtxDone => failed
         /\ td' = [td EXCEPT !.hookTasks = @ - 1, !.hookErr = @ \/ failed]
    /\ TearDownOthers

\* err := hookErrGrp.Wait(); the hosts line is reset in test mode when
\* hostConfigStr is set; return nil
TdReturn ==
    /\ td.pc = "hookWait" /\ WaitReturns(td.hookTasks)
    /\ td' = [td EXCEPT
                !.pc = "returned", !.ret = "nil",
                !.log = @ \o <<"hookErrGrp.Wait">>
                          \o (IF td.hookErr THEN <<"failed to unload the hooks">>
                              ELSE <<>>)
                          \o (IF td.mode = "MODE_TEST" /\ td.hostConfigStr # ""
                              THEN <<"resetNsSwitchConfig">> ELSE <<>>)]
    /\ TearDownOthers

NextTearDown ==
    \/ TdHook
    \/ TdCtxCancel
    \/ TdProxyCtxCancel
    \/ TdProxyTaskEnds
    \/ TdHookCtxCancel
    \/ TdHookTaskEnds
    \/ TdReturn

----------------------------------------------------------------------------
(* package replay: server.Serve, from the loading of the hooks to its      *)
(* return, and the goroutine that launches the user application            *)

\* stopper holds a signal or not (the channel has a buffer of one); app is
\* the goroutine of LaunchUserApplication: "none", "running", "check" (at
\* the test of abortStopHooksForcefully), "sendAbort", "Stop",
\* "StopProxyServer", "sendExit", "done". stops and proxyStops count the
\* calls of loadedHooks.Stop and ps.StopProxyServer, signals the signals
\* delivered so far, appErr is what LaunchUserApplication returned.
NewServe ==
    [ pc          |-> "LoadHooks",
      stopper     |-> FALSE,
      signals     |-> 0,
      appErr      |-> "none",
      hooksLoaded |-> FALSE,
      proxyBooted |-> FALSE,
      abortStopHooksForcefully |-> FALSE,
      app         |-> "none",
      stops       |-> 0,
      proxyStops  |-> 0 ]

InitServe == serve = NewServe

ServeOthers ==
    UNCHANGED <<trackerVars, httpVars, recorderVars, coreVars, utilVars, smock, td>>

ServeReturn(s) == [s EXCEPT !.pc = "returned"]

\* loadedHooks.Stop(...)
StopHooks(s) == [s EXCEPT !.stops = @ + 1]

\* ps.StopProxyServer()
StopProxyServer(s) == [s EXCEPT !.proxyStops = @ + 1]

\* SIGINT or SIGTERM arrives
ServeSignal ==
    /\ serve.pc # "returned" /\ ~serve.stopper /\ serve.signals < MaxSignals
    /\ serve' = [serve EXCEPT !.stopper = TRUE, !.signals = @ + 1]
    /\ ServeOthers

\* select { case <-stopper: return; default: LoadHooks }
ServeLoadHooks ==
    /\ serve.pc = "LoadHooks"
    /\ IF serve.stopper
       THEN serve' = ServeReturn([serve EXCEPT !.stopper = FALSE])
       ELSE \E ok \in BOOLEAN :
              serve' = IF ok THEN [serve EXCEPT !.pc = "SendKeployServerPort",
                                                !.hooksLoaded = TRUE]
                       ELSE ServeReturn(serve)
    /\ ServeOthers

ServeSendKeployServerPort ==
    /\ serve.pc = "SendKeployServerPort"
    /\ \E ok \in BOOLEAN :
         serve' = IF ok THEN [serve EXCEPT !.pc = "BootProxy"] ELSE ServeReturn(serve)
    /\ ServeOthers

\* select { case <-stopper: Stop(true); return; default: BootProxy }
ServeBootProxy ==
    /\ serve.pc = "BootProxy"
    /\ serve' = IF serve.stopper
                THEN [serve EXCEPT !.stopper = FALSE, !.pc = "Stop, return"]
                ELSE [serve EXCEPT !.pc = "SendProxyInfo", !.proxyBooted = TRUE]
    /\ ServeOthers

ServeSendProxyInfo ==
    /\ serve.pc = "SendProxyInfo"
    /\ \E ok \in BOOLEAN :
         serve' = IF ok THEN [serve EXCEPT !.pc = "SendPassThroughPorts"]
                  ELSE ServeReturn(serve)
    /\ ServeOthers

ServeSendPassThroughPorts ==
    /\ serve.pc = "SendPassThroughPorts"
    /\ \E ok \in BOOLEAN :
         serve' = IF ok THEN [serve EXCEPT !.pc = "launch"] ELSE ServeReturn(serve)
    /\ ServeOthers

\* select { case <-stopper: Stop(true); StopProxyServer(); return;
\*          default: go func() { LaunchUserApplication ... } }
ServeLaunch ==
    /\ serve.pc = "launch"
    /\ serve' = IF serve.stopper
                THEN [serve EXCEPT !.stopper = FALSE, !.pc = "Stop"]
                ELSE [serve EXCEPT !.pc = "select", !.app = "running"]
    /\ ServeOthers

\* LaunchUserApplication returns: ErrInterrupted ends the goroutine, every
\* other outcome goes on to the test of abortStopHooksForcefully
AppLaunchReturns ==
    /\ serve.app = "running"
    /\ \E err \in {"ErrInterrupted", "ErrFailedUnitTest", "ErrUnExpected", "other", "nil"} :
         serve' = [serve EXCEPT !.appErr = err,
                                !.app = IF err = "ErrInterrupted" THEN "done"
                                        ELSE "check"]
    /\ ServeOthers

\* if !abortStopHooksForcefully: the flag is written by Serve without any
\* synchronisation, so the goroutine may still read false after the write
AppChecksAbort ==
    /\ serve.app = "check"
    /\ \E seen \in {serve.abortStopHooksForcefully, FALSE} :
         serve' = [serve EXCEPT !.app = IF seen THEN "done" ELSE "sendAbort"]
    /\ ServeOthers

\* the final select of Serve: the signal, or the goroutine's send on
\* abortStopHooksInterrupt
ServeSelect ==
    /\ serve.pc = "select"
    /\ \/ /\ serve.stopper
          /\ serve' = [serve EXCEPT !.stopper = FALSE, !.pc = "Stop",
                                    !.abortStopHooksForcefully = TRUE]
       \/ /\ serve.app = "sendAbort"
          /\ serve' = [serve EXCEPT !.pc = "exitCmd", !.app = "Stop"]
    /\ ServeOthers

\* Serve after it took the signal: loadedHooks.Stop, then return or go on to
\* the proxy
ServeStopHooks ==
    /\ serve.pc \in {"Stop", "Stop, return"}
    /\ serve' = IF serve.pc = "Stop"
                THEN [StopHooks(serve) EXCEPT !.pc = "StopProxyServer"]
                ELSE ServeReturn(StopHooks(serve))
    /\ ServeOthers

\* ps.StopProxyServer(); return
ServeStopProxyServer ==
    /\ serve.pc = "StopProxyServer"
    /\ serve' = ServeReturn(StopProxyServer(serve))
    /\ ServeOthers

\* the goroutine after its send: loadedHooks.Stop(true)
AppStopsHooks ==
    /\ serve.app = "Stop"
    /\ serve' = [StopHooks(serve) EXCEPT !.app = "StopProxyServer"]
    /\ ServeOthers

\* the goroutine: ps.StopProxyServer(), then the send on exitCmd
AppStopsProxyServer ==
    /\ serve.app = "StopProxyServer"
    /\ serve' = [StopProxyServer(serve) EXCEPT !.app = "sendExit"]
    /\ ServeOthers

\* <-exitCmd
ServeExitCmd ==
    /\ serve.pc = "exitCmd" /\ serve.app = "sendExit"
    /\ serve' = ServeReturn([serve EXCEPT !.app = "done"])
    /\ ServeOthers

NextServe ==
    \/ ServeSignal
    \/ ServeLoadHooks
    \/ ServeSendKeployServerPort
    \/ ServeBootProxy
    \/ ServeSendProxyInfo
    \/ ServeSendPassThroughPorts
    \/ ServeLaunch
    \/ AppLaunchReturns
    \/ AppChecksAbort
    \/ ServeSelect
    \/ ServeStopHooks
    \/ ServeStopProxyServer
    \/ AppStopsHooks
    \/ AppStopsProxyServer
    \/ ServeExitCmd
----------------------------------------------------------------------------
(* Calls of pure functions: package yaml and the parsers' predicates *)

NoCall == [fn |-> "none"]

----------------------------------------------------------------------------
(* package yaml: NewSessionIndex and ReadSessionIndices. A file name is a
   sequence of characters. *)

Digits == <<"0", "1", "2", "3", "4", "5", "6", "7", "8", "9">>

IsDigit(ch) == \E d \in 1..10 : Digits[d] = ch

DigitValue(ch) == (CHOOSE d \in 1..10 : Digits[d] = ch) - 1

\* the range of int, scaled: strconv.Atoi fails above MaxInt, and
\* MaxInt + 1 wraps to MinInt
MaxInt == 7

MinInt == 0 - MaxInt - 1

\* int addition
WrapInt(n) == ((n - MinInt) % (2 * (MaxInt + 1))) + MinInt

\* models.TestSetPattern, "test-set-"
TestSetPattern == <<"t", "e", "s", "t", "-", "s", "e", "t", "-">>

\* the value of a string of decimal digits
RECURSIVE Decimal(_)
Decimal(s) ==
    IF s = <<>> THEN 0
    ELSE 10 * Decimal(SubSeq(s, 1, Len(s) - 1)) + DigitValue(s[Len(s)])

\* strconv.Atoi: an optional sign, then digits only, and a value in the
\* range of int; [ok, v]
Atoi(s) ==
    LET signed == s # <<>> /\ s[1] \in {"+", "-"}
        digits == IF signed THEN Tail(s) ELSE s
        v == IF signed /\ s[1] = "-" THEN 0 - Decimal(digits) ELSE Decimal(digits)
    IN IF digits = <<>> \/ \E p \in 1..Len(digits) : ~IsDigit(digits[p])
       THEN [ok |-> FALSE, v |-> 0]
       ELSE IF v > MaxInt \/ v < MinInt THEN [ok |-> FALSE, v |-> 0]
       ELSE [ok |-> TRUE, v |-> v]

\* fmt.Sprintf("%v", n) of an int
RECURSIVE Itoa(_)
Itoa(n) ==
    IF n < 0 THEN <<"-">> \o Itoa(0 - n)
    ELSE IF n < 10 THEN <<Digits[n + 1]>>
    ELSE Itoa(n \div 10) \o <<Digits[(n % 10) + 1]>>

\* strings.Split(s, "-")
RECURSIVE Split(_)
Split(s) ==
    IF \A p \in 1..Len(s) : s[p] # "-" THEN <<s>>
    ELSE LET p == CHOOSE q \in 1..Len(s) :
                     s[q] = "-" /\ \A r \in 1..(q - 1) : s[r] # "-"
         IN <<SubSeq(s, 1, p - 1)>> \o Split(SubSeq(s, p + 1, Len(s)))

\* one pass of the loop of NewSessionIndex over a file name
NextIndex(indx, fileName) ==
    LET fileNamePackets == Split(fileName)
        fileIndx == Atoi(fileNamePackets[3])
    IN IF Len(fileNamePackets) = 3 /\ fileIndx.ok /\ indx < WrapInt(fileIndx.v + 1)
       THEN WrapInt(fileIndx.v + 1)
       ELSE indx

\* the loop over the entries of the directory, in the order ReadDir gives
RECURSIVE IndexLoop(_, _)
IndexLoop(indx, files) ==
    IF files = <<>> THEN indx
    ELSE IndexLoop(NextIndex(indx, Head(files)), Tail(files))

\* a directory: missing, unreadable, or its entries
MissingDir == [state |-> "missing", files |-> <<>>]

UnreadableDir == [state |-> "unreadable", files |-> <<>>]

Dir(files) == [state |-> "ok", files |-> files]

\* NewSessionIndex: [name, err]
NewSessionIndex(dir) ==
    IF dir.state = "missing" THEN [name |-> TestSetPattern \o Itoa(0), err |-> "nil"]
    ELSE IF dir.state = "unreadable" THEN [name |-> <<>>, err |-> "ReadDir"]
    ELSE [name |-> TestSetPattern \o Itoa(IndexLoop(0, dir.files)), err |-> "nil"]

\* regexp ^test-set-\d{1,}$
MatchesTestSet(name) ==
    /\ Len(name) > Len(TestSetPattern)
    /\ SubSeq(name, 1, Len(TestSetPattern)) = TestSetPattern
    /\ \A p \in (Len(TestSetPattern) + 1)..Len(name) : IsDigit(name[p])

\* ReadSessionIndices: [indices, err]
ReadSessionIndices(dir) ==
    IF dir.state = "missing" THEN [indices |-> <<>>, err |-> "nil"]
    ELSE IF dir.state = "unreadable" THEN [indices |-> <<>>, err |-> "ReadDir"]
    ELSE [indices |-> SelectSeq(dir.files, MatchesTestSet), err |-> "nil"]

\* file names a directory of test-sets may hold
TestSet(digits) == TestSetPattern \o digits

FileNames ==
    { TestSet(<<"0">>), TestSet(<<"1">>), TestSet(<<"6">>), TestSet(<<"7">>),
      TestSet(<<"8">>), TestSet(<<"0", "1">>), TestSet(<<"1", "0">>),
      TestSet(<<"+", "2">>), TestSet(<<"x">>),
      <<"a", "-", "b", "-", "3">>, <<"r", "e", "p", "o", "r", "t", "s">> }

\* the entries of a directory in an order of ReadDir, without repetition
Listings(n) ==
    { f \in UNION { [1..k -> FileNames] : k \in 0..n } :
        \A p, q \in 1..Len(f) : p # q => f[p] # f[q] }

Dirs == {MissingDir, UnreadableDir} \cup { Dir(f) : f \in Listings(MaxFiles) }

\* NewSessionIndex and ReadSessionIndices are called on a directory
CallNewSessionIndex ==
    /\ call.fn = "none"
    /\ \E dir \in Dirs :
         call' = [ fn |-> "NewSessionIndex", dir |-> dir,
                   out |-> NewSessionIndex(dir),
                   indices |-> ReadSessionIndices(dir).indices ]
    /\ UNCHANGED <<trackerVars, httpVars, recorderVars, coreVars, serviceVars>>

----------------------------------------------------------------------------
(* package yaml: CompareHeaders. An http.Header is a function from header
   keys to sequences of values, a noise map is the set of its keys. *)

HeaderKeys == {"Date", "Etag"}

HeaderValueLists == {<<"a">>, <<"b">>, <<"a", "a">>, <<"a", "b">>, <<"b", "a">>}

NoiseKeys == HeaderKeys \cup {"header"}

Headers == UNION { [ks -> HeaderValueLists] : ks \in SUBSET HeaderKeys }

\* the orders in which range may visit the keys of a map
KeyOrders(h) ==
    { o \in [1..Cardinality(DOMAIN h) -> DOMAIN h] :
        \A p, q \in DOMAIN o : p # q => o[p] # o[q] }

\* h[k] with the zero value, nil, for a key the map does not hold
Lookup(h, k) == IF k \in DOMAIN h THEN h[k] ELSE <<>>

HeaderResult(normal, key, expected, actual) ==
    [ Normal   |-> normal,
      Expected |-> [Key |-> key, Value |-> expected],
      Actual   |-> [Key |-> key, Value |-> actual] ]

\* variant of checkKey that finds no key in the list
checkKeyNever(res, key) == TRUE

checkKey(res, key) == \A p \in 1..Len(res) : res[p].Expected.Key # key

\* if checkKey(res, k) { *res = append(*res, ...) }
AppendChecked(res, r) ==
    IF checkKey(res, r.Expected.Key) THEN Append(res, r) ELSE res

IsNoisy(noise, k) == k \in noise \/ "header" \in noise

\* the body of the loop over h1; st is [match, res]
CompareExpected(st, k, h1, h2, noise) ==
    LET v == h1[k]
        val == Lookup(h2, k)
        differs == \E i \in 1..Len(v) : val[i] # v[i]
        failed == [ match |-> FALSE,
                    res |-> AppendChecked(st.res, HeaderResult(FALSE, k, v, val)) ]
    IN IF ~IsNoisy(noise, k) /\ (k \notin DOMAIN h2 \/ Len(v) # Len(val))
       THEN failed
       ELSE LET inner == IF ~IsNoisy(noise, k) /\ differs THEN failed ELSE st
            IN [ match |-> inner.match,
                 res |-> AppendChecked(inner.res, HeaderResult(TRUE, k, v, val)) ]

\* variant of the body of the loop over h2 that has no look at the noise
CompareActualNoNoise(st, k, h1, h2, noise) ==
    IF k \notin DOMAIN h1
    THEN [ match |-> FALSE,
           res |-> AppendChecked(st.res, HeaderResult(FALSE, k, <<>>, h2[k])) ]
    ELSE st

\* the body of the loop over h2
CompareActual(st, k, h1, h2, noise) ==
    LET v == h2[k]
        val == Lookup(h1, k)
    IN IF IsNoisy(noise, k) /\ checkKey(st.res, k)
       THEN [st EXCEPT !.res = Append(st.res, HeaderResult(TRUE, k, val, v))]
       ELSE IF k \notin DOMAIN h1
       THEN [ match |-> FALSE,
              res |-> AppendChecked(st.res, HeaderResult(FALSE, k, <<>>, v)) ]
       ELSE st

RECURSIVE RangeExpected(_, _, _, _, _)
RangeExpected(st, order, h1, h2, noise) ==
    IF order = <<>> THEN st
    ELSE RangeExpected(CompareExpected(st, Head(order), h1, h2, noise),
                       Tail(order), h1, h2, noise)

RECURSIVE RangeActual(_, _, _, _, _)
RangeActual(st, order, h1, h2, noise) ==
    IF order = <<>> THEN st
    ELSE RangeActual(CompareActual(st, Head(order), h1, h2, noise),
                     Tail(order), h1, h2, noise)

\* CompareHeaders with a result list that is not nil: [match, res]; order1
\* and order2 are the orders in which the two maps are ranged over
CompareHeaders(h1, h2, res, noise, order1, order2) ==
    RangeActual(RangeExpected([match |-> TRUE, res |-> res], order1, h1, h2, noise),
                order2, h1, h2, noise)

\* result lists a caller may pass: empty, or with an entry from an earlier
\* comparison
ResultLists == { <<>>, <<HeaderResult(TRUE, "Date", <<"a">>, <<"a">>)>> }

CallCompareHeaders ==
    /\ call.fn = "none"
    /\ \E h1 \in Headers, h2 \in Headers, noise \in SUBSET NoiseKeys,
          res \in ResultLists :
         \E order1 \in KeyOrders(h1), order2 \in KeyOrders(h2) :
           call' = [ fn |-> "CompareHeaders", h1 |-> h1, h2 |-> h2, res |-> res,
                     noise |-> noise,
                     out |-> CompareHeaders(h1, h2, res, noise, order1, order2) ]
    /\ UNCHANGED <<trackerVars, httpVars, recorderVars, coreVars, serviceVars>>

----------------------------------------------------------------------------
(* package httpparser: OutgoingType. A buffer is a sequence of characters. *)

\* bytes.HasPrefix
HasPrefix(s, prefix) ==
    Len(s) >= Len(prefix) /\ SubSeq(s, 1, Len(prefix)) = prefix

\* variant that takes a method keyword without the space after it
OutgoingTypeNoSpace(buffer) ==
    \/ HasPrefix(buffer, <<"H", "T", "T", "P", "/">>)
    \/ HasPrefix(buffer, <<"G", "E", "T">>)
    \/ HasPrefix(buffer, <<"P", "O", "S", "T">>)
    \/ HasPrefix(buffer, <<"P", "U", "T">>)
    \/ HasPrefix(buffer, <<"P", "A", "T", "C", "H">>)
    \/ HasPrefix(buffer, <<"D", "E", "L", "E", "T", "E">>)
    \/ HasPrefix(buffer, <<"O", "P", "T", "I", "O", "N", "S">>)
    \/ HasPrefix(buffer, <<"H", "E", "A", "D">>)

\* HttpParser.OutgoingType
OutgoingType(buffer) ==
    \/ HasPrefix(buffer, <<"H", "T", "T", "P", "/">>)
    \/ HasPrefix(buffer, <<"G", "E", "T", " ">>)
    \/ HasPrefix(buffer, <<"P", "O", "S", "T", " ">>)
    \/ HasPrefix(buffer, <<"P", "U", "T", " ">>)
    \/ HasPrefix(buffer, <<"P", "A", "T", "C", "H", " ">>)
    \/ HasPrefix(buffer, <<"D", "E", "L", "E", "T", "E", " ">>)
    \/ HasPrefix(buffer, <<"O", "P", "T", "I", "O", "N", "S", " ">>)
    \/ HasPrefix(buffer, <<"H", "E", "A", "D", " ">>)

\* words a connection may start with: the request methods, a status line,
\* and words close to them
Words ==
    { <<"H", "T", "T", "P", "/", "1", ".", "1">>,
      <<"H", "T", "T", "P", " ", "1">>,
      <<"h", "t", "t", "p", "/", "1">>,
      <<"G", "E", "T", " ", "/">>,
      <<"g", "e", "t", " ", "/">>,
      <<"P", "O", "S", "T", " ", "/">>,
      <<"P", "U", "T", " ", "/">>,
      <<"P", "A", "T", "C", "H", " ", "/">>,
      <<"D", "E", "L", "E", "T", "E", " ", "/">>,
      <<"O", "P", "T", "I", "O", "N", "S", " ", "/">>,
      <<"H", "E", "A", "D", " ", "/">>,
      <<"G", "E", "T", "S", " ", "/">>,
      <<"T", "R", "A", "C", "E", " ", "/">>,
      <<"C", "O", "N", "N", "E", "C", "T", " ", "/">>,
      <<"G", "E", "T", "\t", "/">>,
      <<"G", "E", "T", "/", " ">>,
      <<"P", "O", "S", "T", "S", " ", "/">>,
      <<" ", "G", "E", "T", " ", "/">>,
      <<"P", "U", "T", "T", " ", "/">>,
      <<"H", "E", "A", "D", "E", "R", " ", "/">> }

\* the buffers: every prefix of a word, alone or followed by one more
\* character
Buffers ==
    UNION { { SubSeq(w, 1, n) \o t : n \in 0..Len(w), t \in {<<>>, <<" ">>, <<"x">>} } :
            w \in Words }

CallOutgoingType ==
    /\ call.fn = "none"
    /\ \E buffer \in Buffers :
         call' = [ fn |-> "OutgoingType", buffer |-> buffer,
                   out |-> OutgoingType(buffer) ]
    /\ UNCHANGED <<trackerVars, httpVars, recorderVars, coreVars, serviceVars>>

----------------------------------------------------------------------------
(* package core: setupNsswitchConfig and resetNsSwitchConfig. The file is  *)
(* the sequence of its lines (strings.Split and strings.Join on "\n"), a   *)
(* line the sequence of its words.                                         *)

HostsPrefix == <<"hosts:">>

\* lines[i] = "hosts: files dns"
ProxyHostsLine == <<"hosts:", "files", "dns">>

\* the loop of setupNsswitchConfig from line i on: every hosts: line is kept
\* in hostConfigStr and replaced
RECURSIVE SetupLines(_, _, _)
SetupLines(lines, i, hostConfigStr) ==
    IF i > Len(lines) THEN [lines |-> lines, hostConfigStr |-> hostConfigStr]
    ELSE IF HasPrefix(lines[i], HostsPrefix)
    THEN SetupLines([lines EXCEPT ![i] = ProxyHostsLine], i + 1, lines[i])
    ELSE SetupLines(lines, i + 1, hostConfigStr)

\* Core.setupNsswitchConfig on a file that exists and can be read and
\* written: the file it leaves and c.hostConfigStr ("" is <<>>)
setupNsswitchConfig(file) == SetupLines(file, 1, <<>>)

\* Core.resetNsSwitchConfig: every hosts: line becomes c.hostConfigStr
resetNsSwitchConfig(file, hostConfigStr) ==
    [i \in 1..Len(file) |->
        IF HasPrefix(file[i], HostsPrefix) THEN hostConfigStr ELSE file[i]]

\* the tear-down of Core.Hook in test mode, n times: the reset is called
\* when c.hostConfigStr is not empty; writes counts the writes of the file
RECURSIVE TearDowns(_, _, _, _)
TearDowns(file, hostConfigStr, writes, n) ==
    IF n = 0 THEN [file |-> file, writes |-> writes]
    ELSE IF hostConfigStr # <<>>
    THEN TearDowns(resetNsSwitchConfig(file, hostConfigStr), hostConfigStr,
                   writes + 1, n - 1)
    ELSE TearDowns(file, hostConfigStr, writes, n - 1)

\* lines of an nsswitch.conf: hosts lines, another database, a comment, a
\* line that holds hosts: but does not start with it, the empty line
NsswitchLines ==
    { <<"hosts:", "files">>, <<"hosts:", "dns", "files">>, <<"passwd:", "files">>,
      <<"#", "hosts:", "db">>, <<>> }

Files == UNION { [1..n -> NsswitchLines] : n \in 0..MaxLines }

\* Hook in test mode rewrites the file; the tear-down runs n times
CallNsswitch ==
    /\ call.fn = "none"
    /\ \E file \in Files, n \in 1..MaxTearDowns :
         LET s == setupNsswitchConfig(file)
             t == TearDowns(s.lines, s.hostConfigStr, 0, n)
         IN call' = [ fn |-> "nsswitch", file |-> file, n |-> n,
                      hooked |-> s.lines, hostConfigStr |-> s.hostConfigStr,
                      out |-> t.file, writes |-> t.writes ]
    /\ UNCHANGED <<trackerVars, httpVars, recorderVars, coreVars, serviceVars>>
----------------------------------------------------------------------------
(* Specifications *)

InitUtil ==
    call = NoCall

Init == InitTracker /\ InitHttp /\ InitRecorder /\ InitCore /\ InitUtil
        /\ InitStartMock /\ InitTearDown /\ InitServe

SpecTracker == Init /\ [][NextTracker]_vars

SpecTrackerMutex == Init /\ [][NextTrackerMutex]_vars

SpecRecord == Init /\ [][NextRecord]_vars

SpecReplay == Init /\ [][NextReplay]_vars

SpecRecorder == Init /\ [][NextRecorder]_vars


SpecCore == Init /\ [][NextCore]_vars

\* Core.Run with its goroutines scheduled: each step that stays possible
\* is taken
SpecCoreRun ==
    /\ Init /\ [][NextCoreRun]_vars
    /\ WF_vars(InodeStart) /\ WF_vars(InodeSendInode) /\ WF_vars(AppSendsInode)
    /\ WF_vars(AppExits) /\ WF_vars(RunSelect) /\ WF_vars(RunWait)

NextUtil ==
    \/ CallNewSessionIndex
    \/ CallCompareHeaders
    \/ CallOutgoingType
    \/ CallNsswitch

SpecUtil == Init /\ [][NextUtil]_vars

\* recorder.StartMock with its goroutines scheduled: every call returns and
\* every goroutine that can take a step takes it; the cancellation of the
\* context and the arrival of mocks are left to the environment
SpecStartMock ==
    /\ Init /\ [][NextStartMock]_vars
    /\ WF_vars(MockSetup) /\ WF_vars(MockHook) /\ WF_vars(MockGetOutgoing)
    /\ WF_vars(MockHooksEnd) /\ WF_vars(MockRangeEnd) /\ WF_vars(MockInsertMock)
    /\ WF_vars(MockSelect) /\ WF_vars(MockDeferStop) /\ WF_vars(MockDeferWait)

SpecTearDown == Init /\ [][NextTearDown]_vars

SpecServe == Init /\ [][NextServe]_vars
----------------------------------------------------------------------------
(* Tracker: what a trace of data events means *)

LastDir(trace) == trace[Len(trace)].dir

\* The exchanges of a trace that starts with a request: each is a maximal run
\* of ingress events followed by the maximal run of egress events after it.
\* A trailing run of ingress events (a request not yet answered) is no exchange.
RECURSIVE ExchangesFrom(_, _, _, _)
ExchangesFrom(trace, i, req, resp) ==
    IF i > Len(trace)
    THEN IF resp # <<>> THEN << <<req, resp>> >> ELSE <<>>
    ELSE IF trace[i].dir = IngressTraffic
         THEN IF resp # <<>>
              THEN << <<req, resp>> >> \o ExchangesFrom(trace, i + 1, trace[i].msg, <<>>)
              ELSE ExchangesFrom(trace, i + 1, req \o trace[i].msg, resp)
         ELSE ExchangesFrom(trace, i + 1, req, resp \o trace[i].msg)

Exchanges(trace) == ExchangesFrom(trace, 1, <<>>, <<>>)

\* The connection opened with a request.
RequestFirst == trkTrace # <<>> /\ trkTrace[1].dir = IngressTraffic

\* Requests and responses of one data event each, strictly alternating.
AlternatingTrace ==
    /\ RequestFirst
    /\ \A i \in 1..(Len(trkTrace) - 1) : trkTrace[i].dir # trkTrace[i + 1].dir

\* The traces C1 speaks of, or a prefix of one: requests come first, the
\* kernel's byte counts are exact and no idle period interrupts the trace.
KeepAliveTrace ==
    /\ RequestFirst
    /\ trkExact
    /\ trkGapFree

\* The trace is complete, an idle period has followed it, and the poller has
\* called IsComplete until it reported nothing more.
TraceDrained ==
    /\ KeepAliveTrace
    /\ LastDir(trkTrace) = EgressTraffic
    /\ trkLast.op = "IsComplete"
    /\ trkLast.at - conn.lastActivityTimestamp >= IdleSeconds
    /\ ~trkLast.recordTraffic

----------------------------------------------------------------------------
(* Claims about the tracker *)

\* C1: for a keep-alive trace of n exchanges (each one or more ingress events
\* followed by one or more egress events, no idle gap inside, an idle period
\* after it), IsComplete reports exactly the n exchanges in trace order, each
\* with exactly its own request bytes and its own response bytes, and the
\* exchange counter is 0 afterwards.
C1_KeepAlivePairing ==
    KeepAliveTrace =>
        /\ IsPrefix(trkReported, Exchanges(trkTrace))
        /\ TraceDrained =>
              /\ trkReported = Exchanges(trkTrace)
              /\ conn.recordTestCountAtomic = 0

\* C8 (as stated): whenever the completed-exchange counter is greater than 0,
\* the pending request-buffer queue and the pending response-buffer queue
\* have the same length.  Stated here for the plainest traffic only (one
\* event per request and per response, strictly alternating), where the
\* tracker pairs every exchange correctly.
C8_QueueBalance ==
    (AlternatingTrace /\ conn.recordTestCountAtomic > 0) =>
        Len(conn.currentRecvBufQueue) = Len(conn.currentSentBufQueue)

\* C8 (amended): whenever the counter is greater than 0, the pending
\* response-buffer queue holds at least as many entries as the counter says,
\* and the pending request-buffer queue is at most one entry longer than the
\* pending response-buffer queue.
C8_QueueBalanceAmended ==
    conn.recordTestCountAtomic > 0 =>
        /\ Len(conn.currentSentBufQueue) >= conn.recordTestCountAtomic
        /\ Len(conn.currentRecvBufQueue) <= Len(conn.currentSentBufQueue) + 1

\* C8 witness: an exchange is counted and the request of the next exchange,
\* whose response is still arriving, is already queued.
C8_Witness ==
    /\ conn.recordTestCountAtomic > 0
    /\ Len(conn.currentRecvBufQueue) = Len(conn.currentSentBufQueue) + 1
    /\ conn.SentBuf # <<>>

\* A step that delivers a data event, and what it rotated.
IsDataEventStep == trkTrace' # trkTrace
RotatedRequest == Len(conn'.currentRecvBufQueue) > Len(conn.currentRecvBufQueue)
RotatedResponse == Len(conn'.currentSentBufQueue) > Len(conn.currentSentBufQueue)
PreviousDir == IF trkTrace = <<>> THEN "none" ELSE LastDir(trkTrace)

\* C9: AddDataEvent rotates the request buffer only for an egress event whose
\* preceding data event was ingress, and rotates the response buffer and
\* increments the counter only for an ingress event whose preceding data event
\* was egress; two consecutive events of the same direction append no queue
\* entry and leave the counter unchanged.  Stated for connections that open
\* with a request.
C9_DirectionFlipsOnly ==
    [][ (IsDataEventStep /\ RequestFirst) =>
          /\ RotatedRequest =>
                LastDir(trkTrace') = EgressTraffic /\ PreviousDir = IngressTraffic
          /\ (RotatedResponse
                \/ conn'.recordTestCountAtomic # conn.recordTestCountAtomic) =>
                LastDir(trkTrace') = IngressTraffic /\ PreviousDir = EgressTraffic
          /\ (RotatedResponse <=>
                conn'.recordTestCountAtomic = conn.recordTestCountAtomic + 1)
      ]_vars

\* A step that is one IsComplete call.
IsCompleteStep ==
    /\ trkLast'.op = "IsComplete"
    /\ trkTrace' = trkTrace
    /\ now' = now

PoppedOne(q, qAfter) == Len(q) > 0 /\ qAfter = Tail1(q)

\* C10: whenever the counter is > 0, one IsComplete call removes exactly one
\* entry from each of the six queues, decrements the counter by one, returns
\* the removed buffers, and reports ready iff expected equals actual on the
\* request side and on the response side.  Stated for connections that open
\* with a request.
C10_QueuedStep ==
    [][ (IsCompleteStep /\ RequestFirst /\ conn.recordTestCountAtomic > 0) =>
          /\ PoppedOne(conn.currentRecvBytesQueue, conn'.currentRecvBytesQueue)
          /\ PoppedOne(conn.totalRecvBytesQueue, conn'.totalRecvBytesQueue)
          /\ PoppedOne(conn.currentSentBytesQueue, conn'.currentSentBytesQueue)
          /\ PoppedOne(conn.totalSentBytesQueue, conn'.totalSentBytesQueue)
          /\ PoppedOne(conn.currentRecvBufQueue, conn'.currentRecvBufQueue)
          /\ PoppedOne(conn.currentSentBufQueue, conn'.currentSentBufQueue)
          /\ conn'.recordTestCountAtomic = conn.recordTestCountAtomic - 1
          /\ trkLast'.requestBuf = Head(conn.currentRecvBufQueue)
          /\ trkLast'.responseBuf = Head(conn.currentSentBufQueue)
          /\ trkLast'.recordTraffic <=>
                /\ Head(conn.currentRecvBytesQueue) = Head(conn.totalRecvBytesQueue)
                /\ Head(conn.currentSentBytesQueue) = Head(conn.totalSentBytesQueue)
      ]_vars

----------------------------------------------------------------------------
(* Claims about the HTTP parser in record mode (SpecRecord) *)

RECURSIVE Flatten(_)
Flatten(segs) == IF segs = <<>> THEN <<>> ELSE Head(segs) \o Flatten(Tail(segs))

\* the mock that the bytes of exchange x, and nothing else, give
ExpectedMock(x) == BuildMock(Flatten(x.cli), x.srv[Len(x.srv)])

\* exchange j is complete: the client sent its whole request and holds the
\* whole response of the server
ExchangeComplete(j) ==
    \/ j < env.k
    \/ j = env.k /\ env.cli = <<>> /\ env.srv = <<>> /\ Relayed(d2c)

\* exchange j is one that record mode has to save
Recordable(j) ==
    /\ ExpectedMock(truth[j]).ok
    /\ ~IsPassThroughHost(ExpectedMock(truth[j]).Host)

\* encodeOutgoingHttp returned and every goroutine it left behind has run
RecordQuiescent == mode = MODE_RECORD /\ frame.pc = "done" /\ goPending = {}

AppendedFor(j) == { a \in 1..Len(appended) : appended[a].reqId = j }

\* C2: once encodeOutgoingHttp has returned and its goroutines have run,
\* AppendMocks was called exactly once for every completed exchange whose
\* Host is not a pass-through host, with the mock that the bytes of that
\* exchange alone give, and never for an exchange to a pass-through host.
C2_OneMockPerExchange ==
    RecordQuiescent =>
        /\ \A j \in 1..Len(truth) :
              (ExchangeComplete(j) /\ Recordable(j)) =>
                  /\ Cardinality(AppendedFor(j)) = 1
                  /\ \A a \in AppendedFor(j) : appended[a] = ExpectedMock(truth[j])
        /\ \A a \in 1..Len(appended) : ~IsPassThroughHost(appended[a].Host)

\* C3: as long as no Write failed, what the proxy wrote to the client is
\* what it read from the destination, and what it wrote to the destination
\* is what it read from the client, byte for byte and in order.
C3_RelayFidelity ==
    (mode = MODE_RECORD /\ ~wfail) => (Relayed(d2c) /\ Relayed(c2d))

\* C6: AppendMocks receives the mocks of one connection in the order in
\* which their exchanges completed.
C6_EmissionOrder ==
    \A a, b \in 1..Len(appended) :
        a < b => appended[a].reqId < appended[b].reqId

----------------------------------------------------------------------------
(* Claims about the HTTP parser in replay mode (SpecReplay) *)

\* decodeOutgoingHttp is about to ask the matcher for a request that parses
AtMatch ==
    /\ mode = MODE_TEST /\ frame.pc = "match"
    /\ HeadOk(frame.finalReq, "REQ")
    /\ ReadBody(HeaderLines(frame.finalReq), AfterHeaders(frame.finalReq), FALSE).ok

FramedHost == frame.finalReq[1].v
FramedBody == ReadBody(HeaderLines(frame.finalReq), AfterHeaders(frame.finalReq), FALSE).body

\* no mock of the store answers the framed request
NoMockMatches ==
    \A p \in 1..Len(store) :
        MatchKey(store[p].Host, store[p].reqBody) # MatchKey(FramedHost, FramedBody)

\* what the step added to the history of decodeOutgoingHttp
NewEvents == SubSeq(events', Len(events) + 1, Len(events'))

MissStep == AtMatch /\ NoMockMatches /\ frame'.pc # "match"

MissLogged ==
    \E p \in 1..Len(NewEvents) :
        /\ NewEvents[p].ev = "error"
        /\ NewEvents[p].msg = "Didn't match any prexisting http mock"

----------------------------------------------------------------------------
(* Claims about recorder.Start (SpecRecorder) *)

ShutdownOrder ==
    << "runAppCtxCancel", "runAppErrGrp.Wait", "hookCtxCancel",
       "hookErrGrp.Wait", "errGrp.Wait", "RecordedTestSuite" >>

IsShutdownStep(s) == \E p \in 1..Len(ShutdownOrder) : ShutdownOrder[p] = s

ShutdownSteps == SelectSeq(steps, IsShutdownStep)

\* C7: the shutdown steps of Start are taken in the order cancel the app
\* run context, wait for the app run group, cancel the hooks context, wait
\* for the hooks group, wait for errGrp, report telemetry; when Start has
\* returned all of them were taken.
C7_ShutdownOrder ==
    /\ IsPrefix(ShutdownSteps, ShutdownOrder)
    /\ rec.pc = "returned" => ShutdownSteps = ShutdownOrder
----------------------------------------------------------------------------
(* Claims about the tracker: the idle flush and the buffers *)

\* A step that is one IsComplete call taking the idle branch: the counter is
\* zero, a response event has been seen and IdleSeconds have passed.
IdleFlushStep ==
    /\ IsCompleteStep
    /\ conn.recordTestCountAtomic = 0
    /\ conn.gotResponseDataEvent
    /\ now - conn.lastActivityTimestamp >= IdleSeconds

\* A tracker as NewTracker makes it, apart from the activity timestamp.
FreshTracker(c) ==
    c = [NewTracker EXCEPT !.lastActivityTimestamp = c.lastActivityTimestamp]

\* C11: an IsComplete call with the counter at zero, a response event seen
\* and IdleSeconds elapsed validates only the request byte counts, returns the
\* queued request buffer with the current SentBuf as the response, leaves the
\* tracker as a freshly created one (flags, byte counts, buffers and all
\* pending queues), and an IsComplete call right after it reports not ready.
C11_IdleFlush ==
    [][ IdleFlushStep =>
          /\ Len(conn.currentRecvBufQueue) > 0
          /\ Len(conn.currentRecvBytesQueue) > 0
          /\ Len(conn.totalRecvBytesQueue) > 0
          /\ trkLast'.requestBuf = Head(conn.currentRecvBufQueue)
          /\ trkLast'.responseBuf = conn.SentBuf
          /\ trkLast'.recordTraffic <=>
                Head(conn.currentRecvBytesQueue) = Head(conn.totalRecvBytesQueue)
          /\ FreshTracker(conn')
          /\ ~IsComplete(conn', now').recordTraffic
      ]_vars

\* C12: after any sequence of data events neither RecvBuf nor SentBuf holds
\* more than maxBufferSize bytes, and no exchange IsComplete reports ready
\* carries a buffer longer than that.
C12_BufferCap ==
    /\ Len(conn.RecvBuf) <= maxBufferSize
    /\ Len(conn.SentBuf) <= maxBufferSize
    /\ \A i \in 1..Len(trkReported) :
          /\ Len(trkReported[i][1]) <= maxBufferSize
          /\ Len(trkReported[i][2]) <= maxBufferSize

\* The goroutines between Lock and Unlock of a writing operation, and
\* between RLock and RUnlock of a reading one.
InWrite == {t \in Threads : thr[t].op \in WriteOps /\ thr[t].pc \notin {"idle", "lock"}}

InRead == {t \in Threads : thr[t].op \in ReadOps /\ thr[t].pc \notin {"idle", "lock"}}

\* A data event half applied: a byte count is queued and its buffer is not.
HalfApplied(c) ==
    \/ Len(c.currentRecvBytesQueue) # Len(c.currentRecvBufQueue)
    \/ Len(c.currentSentBytesQueue) # Len(c.currentSentBufQueue)
    \/ Len(c.currentRecvBytesQueue) # Len(c.totalRecvBytesQueue)
    \/ Len(c.currentSentBytesQueue) # Len(c.totalSentBytesQueue)

\* C13: AddOpenEvent, AddDataEvent, AddCloseEvent and IsComplete on one
\* tracker exclude each other and the readers; whenever none of them is
\* running the tracker is what the whole operations, applied one after the
\* other in lock order, leave; IsComplete, ToBytes and IsInactive return what
\* they return in that sequential order and never see a data event half
\* applied.
C13_Serialized ==
    /\ Cardinality(InWrite) <= 1
    /\ InWrite # {} => InRead = {}
    /\ InWrite = {} => conn = seq /\ ~HalfApplied(conn)
    /\ \A t \in Threads :
          thr[t].pc = "unlock" => /\ conn = seq
                                  /\ thr[t].got = thr[t].expect
                                  /\ ~HalfApplied(conn)
    /\ \A t \in Threads :
          (thr[t].pc = "body" /\ thr[t].op \in ReadOps \cup {"IsComplete"}) =>
              ~HalfApplied(conn)

\* C13 witness: IsComplete is called while a data event is half applied (its
\* byte count queued, its buffer not yet) and waits for the lock.
C13_Witness ==
    \E t, u \in Threads :
        /\ thr[t].op = "AddDataEvent" /\ thr[t].pc = "rotateBuf"
        /\ thr[u].op = "IsComplete" /\ thr[u].pc = "lock"
        /\ HalfApplied(conn)
----------------------------------------------------------------------------
(* Claims about request framing and protocol errors *)

\* A step in which handleChunkedRequests returns nil: its caller goes on to
\* read the response (record mode) or to match the request (test mode).
RequestFramedStep ==
    /\ frame.pc \in {"hcReq", "clReq", "chReq"}
    /\ frame'.pc \in {"readResp", "match"}

\* The Content-Length value of a buffer whose framing header is
\* Content-Length: N, and -1 for any other buffer.
DeclaredLength(buf) ==
    LET j == FramingHeader(buf) IN
    IF j # 0 /\ buf[j].t = "CL" THEN buf[j].v ELSE -1

\* C14: when the request headers carry Content-Length N, handleChunkedRequests
\* returns nil only with exactly N body bytes after the header terminator in
\* the captured request, and with every chunk read from the client written
\* to the destination when there is a destination connection.
C14_ContentLengthRequest ==
    [][ (RequestFramedStep /\ DeclaredLength(frame'.finalReq) >= 0) =>
          /\ BodyLength(frame'.finalReq) = DeclaredLength(frame'.finalReq)
          /\ ~destNil => Relayed(c2d')
      ]_vars

\* C15: in record mode, when the request carries Expect: 100-continue and the
\* first reply read from the server is not the 100 Continue response,
\* encodeOutgoingHttp returns a non-nil error and no mock is emitted for the
\* exchange.
C15_ExpectWithout100 ==
    [][ ( /\ mode = MODE_RECORD
          /\ frame.pc = "expect100"
          /\ frame'.pc # "expect100"
          /\ ~IsContinue100(frame'.resp) ) =>
          /\ frame'.pc = "done"
          /\ frame'.ret = "err"
          /\ parsed' = parsed
          /\ goPending' = goPending
      ]_vars

\* The request framed so far has complete headers and a Content-Length that
\* is not a number.
BadLengthRequest ==
    /\ frame.pc = "hcReq"
    /\ hasCompleteHeaders(frame.finalReq)
    /\ FramingHeader(frame.finalReq) # 0
    /\ frame.finalReq[FramingHeader(frame.finalReq)].t = "CLBAD"

\* C16: when framing the request fails because its Content-Length is not a
\* number, the exchange produces no mock and the parser does not return: it
\* keeps the connection and relays the rest of its bytes.
C16_MalformedPassesThrough ==
    [][ (BadLengthRequest /\ frame' # frame) =>
          /\ frame'.pc # "done"
          /\ parsed' = parsed
          /\ goPending' = goPending
      ]_vars

\* decodeOutgoingHttp returns in this step.
DecReturns == mode = MODE_TEST /\ frame.pc # "done" /\ frame'.pc = "done"

\* C17: in replay mode decodeOutgoingHttp stops serving a connection only
\* when reading the client's bytes fails (the client closed), a write fails
\* or the request is malformed: every request before that is framed and
\* handed to the matcher, also after a request that matched no mock.
C17_ReplayKeepAlive ==
    [][ DecReturns =>
          \/ frame.pc \in {"expect100", "hcReq", "clReq", "chReq", "readNext"}
          \/ wfail' /\ ~wfail
          \/ frame.pc = "match" /\ ~AtMatch
      ]_vars
----------------------------------------------------------------------------
(* Claims about what recorder.Start returns *)

\* The final select of Start receives the AppError the runner sent.
AppErrReceived ==
    /\ rec.pc = "select"
    /\ chans.appErrChan # <<>>
    /\ chans'.appErrChan = Tail(chans.appErrChan)

\* C18: when the application exits without error (Core.Run returns the
\* AppError of a clean exit and Start receives it), Start returns nil and
\* does not take the exit for an unknown or fatal application error.
C18_CleanExit ==
    [][ (AppErrReceived /\ Head(chans.appErrChan) = ZeroAppError) =>
          /\ rec'.ret = "nil"
          /\ rec'.stopReason # "unknown error recieved from application"
      ]_vars

\* The body of Start returns in this step.
StartReturns == rec.pc # "deferClose" /\ rec'.pc = "deferClose"

NoErrorQueued ==
    /\ chans.appErrChan = <<>>
    /\ chans.insertTestErrChan = <<>>
    /\ chans.insertMockErrChan = <<>>

\* C19: cancelling the top-level context is no error for the caller: Start
\* returns nil when it finds the context cancelled before hooking or while
\* it waits with no error queued, and it never returns context.Canceled
\* (GetIncoming or GetOutgoing returning it makes Start return nil as well).
C19_CancelIsNoError ==
    [][ StartReturns =>
          /\ rec'.ret # "context.Canceled"
          /\ (rec.ctxDone /\ rec.pc = "Hook") => rec'.ret = "nil"
          /\ (rec.ctxDone /\ rec.pc = "select" /\ NoErrorQueued) => rec'.ret = "nil"
      ]_vars

\* A consumer goroutine finishes the send of an insert error.
TestSendStep == workers.test = "sending" /\ workers'.test # "sending"

MockSendStep == workers.mock = "sending" /\ workers'.mock # "sending"

\* An insert failed and its error is on its channel or about to be sent.
InsertErrorPending ==
    \/ chans.insertTestErrChan # <<>> \/ workers.test = "sending"
    \/ chans.insertMockErrChan # <<>> \/ workers.mock = "sending"

\* C20: an insert that fails with an error other than context.Canceled puts
\* the error on its insert-error channel, and Start, when it returns with
\* such an error pending and the context not cancelled, returns a non-nil
\* error.
C20_StoreWriteFailure ==
    [][ /\ TestSendStep =>
              chans'.insertTestErrChan = Append(chans.insertTestErrChan, "err")
        /\ MockSendStep =>
              chans'.insertMockErrChan = Append(chans.insertMockErrChan, "err")
        /\ (StartReturns /\ InsertErrorPending /\ ~rec.ctxDone) => rec'.ret # "nil"
      ]_vars
----------------------------------------------------------------------------
(* Claims about fatal application errors, the record timer and the
   start-up order of recorder.Start (SpecRecorder) *)

FatalAppErrors == {"ErrCommandError", "ErrInternal"}

\* The shutdown calls of the deferred stop function, in the order of the code.
ShutdownCalls ==
    << "runAppCtxCancel", "runAppErrGrp.Wait", "hookCtxCancel",
       "hookErrGrp.Wait", "errGrp.Wait" >>

IsShutdownCall(s) == \E p \in 1..Len(ShutdownCalls) : ShutdownCalls[p] = s

\* C21: when Start receives a CommandError or an Internal error from the
\* application run it stops waiting and returns a non-nil error, also when
\* it leaves the select with such an error queued and the context not
\* cancelled; when it receives AppStopped it returns nil; and a Start that
\* has returned has made every call of the shutdown path.
C21_FatalAppErrors ==
    [][ /\ (AppErrReceived /\ Head(chans.appErrChan) \in FatalAppErrors) =>
              (StartReturns /\ rec'.ret = "err")
        /\ (AppErrReceived /\ Head(chans.appErrChan) = "ErrAppStopped") =>
              (StartReturns /\ rec'.ret = "nil")
        /\ ( /\ StartReturns /\ rec.pc = "select" /\ ~rec.ctxDone
             /\ chans.appErrChan # <<>>
             /\ Head(chans.appErrChan) \in FatalAppErrors ) => rec'.ret = "err"
        /\ rec'.pc = "returned" =>
              SelectSeq(steps', IsShutdownCall) = ShutdownCalls
      ]_vars

\* Start has returned an error after a fatal application error, with the
\* shutdown path behind it.
C21_Witness ==
    /\ rec.pc = "returned"
    /\ rec.ret = "err"
    /\ rec.stopReason \in FatalAppErrors
    /\ SelectSeq(steps, IsShutdownCall) = ShutdownCalls

IsTimeUp(s) == s = "TimeUp"

\* the stops triggered by the timer goroutine so far
TimeUps == Len(SelectSeq(steps, IsTimeUp))

\* The timer goroutine takes the timer case of its select.
TimerExpires == workers.timer = "running" /\ TimeUps' = TimeUps + 1

StartupFailures ==
    { "failed to get testSetIds", "failed setting up the environment",
      "failed to start the hooks and proxy", "failed to get incoming frames",
      "failed to get outgoing frames" }

\* the positions of Start before the goroutine of the application exists
BeforeRun ==
    {"GetAllTestSetIDs", "Setup", "Hook", "GetIncoming", "GetOutgoing", "Run"}

\* Instrumentation.Run is called in this step.
AppStarts == workers.app = "none" /\ workers'.app # "none"

\* A step of the start-up fails in this step.
StartupFails ==
    rec.stopReason \notin StartupFailures /\ rec'.stopReason \in StartupFailures

\* C23: the application is run only after Setup, Hook, GetIncoming and
\* GetOutgoing have succeeded in this order and both consumer goroutines
\* were spawned; when one of the four fails, or the context is found
\* cancelled before hooking, Start returns at once and the application is
\* never run.
C23_StartupOrder ==
    [][ /\ AppStarts =>
              /\ rec.pc = "Run"
              /\ workers.test # "none" /\ workers.mock # "none"
              /\ workers.hooks # "none"
              /\ rec.stopReason \notin StartupFailures
        /\ (rec.pc = "Hook" /\ rec'.pc = "GetIncoming") =>
              (~rec.ctxDone /\ workers'.hooks = "running")
        /\ rec'.pc \in BeforeRun =>
              /\ workers'.app = "none"
              /\ rec'.pc \in {"GetAllTestSetIDs", "Setup", "Hook"} =>
                    (workers'.test = "none" /\ workers'.mock = "none")
              /\ rec'.pc \in {"GetOutgoing", "Run"} => workers'.test # "none"
              /\ rec'.pc = "Run" => workers'.mock # "none"
        /\ StartupFails => (StartReturns /\ rec'.ret # "nil")
        /\ rec'.stopReason \in StartupFailures => workers'.app = "none"
        /\ (StartReturns /\ rec.pc \in BeforeRun) => workers'.app = "none"
      ]_vars

\* Start has returned after GetOutgoing failed: the consumer of the
\* incoming stream was spawned, the application was never run.
C23_Witness ==
    /\ rec.pc = "returned"
    /\ rec.stopReason = "failed to get outgoing frames"
    /\ workers.test # "none"
    /\ workers.app = "none"

\* Start calls Core.Hook in this step and hook.Load fails.
HookLoadFails ==
    /\ rec.pc = "Hook"
    /\ core'.calls = core.calls + 1
    /\ core'.last.fault = "Load"

\* C27: when loading the kernel hooks fails, Core.Hook returns an error and
\* has not started the proxy (proxyStarted is false as before, StartProxy
\* was not called with success), Start returns a non-nil error at once, and
\* the application is not run then or later.
C27_HookLoadFailure ==
    [][ /\ HookLoadFails =>
              /\ core'.last.err = "hookErr"
              /\ ~core'.proxyStarted /\ core'.starts = core.starts
              /\ core'.loads = core.loads
              /\ StartReturns /\ rec'.ret = "err"
              /\ rec'.stopReason = "failed to start the hooks and proxy"
        /\ core'.last.fault = "Load" =>
              (workers'.app = "none" /\ ~core'.proxyStarted)
      ]_vars

\* Start has returned an error after hook.Load failed; the proxy was not
\* started and the application was not run.
C27_Witness ==
    /\ rec.pc = "returned"
    /\ core.last.fault = "Load"
    /\ rec.ret = "err"
    /\ ~core.proxyStarted
    /\ workers.app = "none"
----------------------------------------------------------------------------
(* Claims about Core.Run and Core.Hook (SpecCore, SpecCoreRun) *)

\* C24: for every kind of application, once the application run has
\* finished or the context is cancelled while Core.Run is under way,
\* Core.Run eventually returns: its deferred wait on runAppErrGrp does not
\* block forever.
C24_RunReturns ==
    (run.pc \in {"select", "wait"} /\ (run.app = "done" \/ run.ctxDone))
        ~> (run.pc = "returned")

\* Hook is called in this step.
HookCalled == core'.calls = core.calls + 1

\* C25: over any sequence of Hook calls on one Core proxy.StartProxy succeeds
\* at most once, and proxyStarted is set exactly when it has succeeded; a
\* Hook call that finds the proxy started leaves it started and does not
\* start it again, while it may load the hooks once more.
C25_ProxyStartedOnce ==
    [][ HookCalled =>
          /\ core'.starts <= 1
          /\ core'.proxyStarted <=> (core'.starts = 1)
          /\ core.proxyStarted =>
                /\ core'.proxyStarted
                /\ core'.starts = core.starts
                /\ core'.loads \in {core.loads, core.loads + 1}
                /\ core'.loads = core.loads + 1 => core'.last.err = "nil"
      ]_vars

\* Three calls of Hook loaded the hooks three times and started the proxy
\* once; the last call found the proxy started.
C25_Witness ==
    /\ core.calls = MaxHookCalls
    /\ core.loads = MaxHookCalls
    /\ core.starts = 1
    /\ core.last.proxyStarted
    /\ core.last.err = "nil"

\* C26: after a call of Hook that found the proxy already started, the
\* pass-through ports and hosts in effect are the ones the caller supplied
\* with that call.
C26_PassThroughRefreshed ==
    (core.calls > 0 /\ core.last.proxyStarted /\ core.last.err = "nil")
        => core.passThrough = core.last.lists

\* the tear-down goroutine has called resetNsSwitchConfig
NsswitchReset == \E i \in 1..Len(td.log) : td.log[i] = "resetNsSwitchConfig"

\* C36: after the context passed to Hook is cancelled, the proxy context is
\* cancelled and the proxy error group fully awaited before the hooks
\* context is cancelled, the hooks error group is fully awaited before the
\* nsswitch configuration is restored, which happens in test mode only, and
\* the tear-down goroutine returns nil.
C36_TearDownOrder ==
    /\ td.proxyCtxDone => td.ctxDone
    /\ td.hookCtxDone => (td.proxyCtxDone /\ td.proxyTasks = 0)
    /\ NsswitchReset => (td.hookCtxDone /\ td.hookTasks = 0 /\ td.mode = "MODE_TEST")
    /\ td.pc = "returned" =>
          /\ td.ret = "nil"
          /\ td.hookCtxDone /\ td.hookTasks = 0

\* In test mode the goroutine has cancelled and awaited the proxy, whose
\* Wait returned an error, then the hooks, has reset the hosts line and has
\* returned.
C36_Witness ==
    /\ td.pc = "returned"
    /\ td.mode = "MODE_TEST"
    /\ td.log = <<"proxyCtxCancel", "proxyErrGrp.Wait", "failed to stop the proxy",
                  "hookCtxCancel", "hookErrGrp.Wait", "resetNsSwitchConfig">>

\* the file holds a line that starts with hosts:
HasHostsLine(file) == \E i \in 1..Len(file) : HasPrefix(file[i], HostsPrefix)

\* C40: in test mode, after Hook has rewritten the hosts line of
\* nsswitch.conf and the tear-down has run once or several times, every
\* hosts: line of the file equals its original content and every other
\* line is unchanged; when the file had no hosts: line the tear-down does
\* not modify the file.
C40_NsswitchRoundTrip ==
    call.fn = "nsswitch" =>
        /\ call.out = call.file
        /\ ~HasHostsLine(call.file) => call.writes = 0
----------------------------------------------------------------------------
(* Claims about package yaml and the parsers' predicates (SpecUtil) *)

\* the index a name matched by ReadSessionIndices carries
IndexOf(name) == Decimal(SubSeq(name, Len(TestSetPattern) + 1, Len(name)))

\* the third packet of a file name is a number
Indexed(name) ==
    LET packets == Split(name)
        digits == IF packets[3] # <<>> /\ packets[3][1] = "+"
                  THEN Tail(packets[3]) ELSE packets[3]
    IN /\ Len(packets) = 3
       /\ digits # <<>>
       /\ \A p \in 1..Len(digits) : IsDigit(digits[p])

Range(f) == { f[p] : p \in 1..Len(f) }

\* C28: NewSessionIndex returns test-set-0 for a missing directory and for
\* one without an indexed entry; the name it returns carries an index
\* strictly greater than the index of every name ReadSessionIndices matches
\* in the directory, and is the name of none of them.
C28_NewSessionIndex ==
    (call.fn = "NewSessionIndex" /\ call.out.err = "nil") =>
        /\ ( \/ call.dir.state = "missing"
             \/ \A name \in Range(call.dir.files) : ~Indexed(name) )
               => call.out.name = TestSet(<<"0">>)
        /\ MatchesTestSet(call.out.name)
        /\ \A name \in Range(call.indices) :
              /\ IndexOf(name) < IndexOf(call.out.name)
              /\ name # call.out.name

\* the keys of h without the noisy ones
Quiet(h, noise) ==
    [k \in { x \in DOMAIN h : ~IsNoisy(noise, x) } |-> h[k]]

\* C29: with a result list that is empty at the call, headers that are noise
\* (their key is in the noise map, or the noise map holds the key header)
\* never make CompareHeaders return false: whenever the two maps agree on
\* every header that is not noise the result is true, whatever noisy headers
\* are missing, extra or different; and the result is false only if a header
\* that is not noise is missing on one side or differs.
C29_NoiseHeaders ==
    (call.fn = "CompareHeaders" /\ call.res = <<>>) =>
        (call.out.match <=> Quiet(call.h1, call.noise) = Quiet(call.h2, call.noise))

\* A comparison returned true although a noisy header of the actual map is
\* missing in the expected map.
C29_Witness ==
    /\ call.fn = "CompareHeaders" /\ call.res = <<>>
    /\ call.noise = {"Date"}
    /\ "Date" \in DOMAIN call.h2 /\ "Date" \notin DOMAIN call.h1
    /\ "Etag" \in DOMAIN call.h1 /\ "Etag" \in DOMAIN call.h2
    /\ call.out.match

\* the request methods the HTTP parser knows
Methods ==
    { <<"G", "E", "T">>,
      <<"P", "O", "S", "T">>,
      <<"P", "U", "T">>,
      <<"P", "A", "T", "C", "H">>,
      <<"D", "E", "L", "E", "T", "E">>,
      <<"O", "P", "T", "I", "O", "N", "S">>,
      <<"H", "E", "A", "D">> }

\* the buffer starts with HTTP/ or with a method and a space
StartsLikeHTTP(buffer) ==
    \/ /\ Len(buffer) >= 5
       /\ buffer[1] = "H" /\ buffer[2] = "T" /\ buffer[3] = "T" /\ buffer[4] = "P"
       /\ buffer[5] = "/"
    \/ \E m \in Methods :
         /\ Len(buffer) > Len(m)
         /\ \A p \in 1..Len(m) : buffer[p] = m[p]
         /\ buffer[Len(m) + 1] = " "

\* C30: OutgoingType is a function of the buffer alone: it returns true
\* exactly when the buffer starts with HTTP/ or with one of GET, POST, PUT,
\* PATCH, DELETE, OPTIONS, HEAD followed by a space, false for every other
\* buffer (the empty one and a method without its space among them), and
\* the call changes nothing else.
C30_OutgoingType ==
    [][ call'.fn = "OutgoingType" =>
          /\ call'.out <=> StartsLikeHTTP(call'.buffer)
          /\ call'.buffer = <<>> => ~call'.out
          /\ call'.buffer \in Methods => ~call'.out
          /\ UNCHANGED <<trackerVars, httpVars, recorderVars, coreVars>>
      ]_vars

\* OutgoingType has returned false for a method keyword that another
\* character than a space follows.
C30_Witness ==
    /\ call.fn = "OutgoingType"
    /\ call.buffer = <<"G", "E", "T", "x">>
    /\ ~call.out

----------------------------------------------------------------------------
(* Further claims about the HTTP parser (SpecRecord, SpecReplay) *)

\* ParseFinalHttp is called in this step.
ParseFinalHttpCalled == parsed' = parsed + 1

\* The frame whose buffers the call of ParseFinalHttp in this step gets:
\* encodeOutgoingHttp resets the accumulators after the call at the end of
\* the loop body, the calls on the EOF paths are followed by a return.
HandedFrame == IF frame.pc = "framed" THEN frame ELSE frame'

\* C31: in record mode the response buffer handed to ParseFinalHttp is the
\* sequence of response bytes written to the client for that exchange, on
\* every path that leads to ParseFinalHttp, the paths where the destination
\* delivers its last bytes together with EOF included.
C31_RecordedEqualsRelayed ==
    [][ (mode = MODE_RECORD /\ ParseFinalHttpCalled)
            => HandedFrame.finalResp = HandedFrame.sent ]_vars

\* The framed request is one the matcher matches to a mock of the store.
RequestMatches ==
    LET requestBuffer == frame.finalReq
        reqBody == ReadBody(HeaderLines(requestBuffer), AfterHeaders(requestBuffer), FALSE)
    IN /\ HeadOk(requestBuffer, "REQ")
       /\ reqBody.ok
       /\ match(store, requestBuffer[1].v, reqBody.body).isMatched

\* the bytes written to the destination hold no byte of the request
NotWritten(written, request) ==
    \A i \in 1..Len(written), j \in 1..Len(request) : written[i] # request[j]

\* C35: in replay mode no byte of a request that the matcher matches to a
\* mock is written to the destination connection: neither its first packet
\* nor the header and body chunks read while framing it.
C35_MatchedNotForwarded ==
    [][ (mode = MODE_TEST /\ frame.pc = "match" /\ RequestMatches)
            => NotWritten(c2d'[2], frame.finalReq) ]_vars

----------------------------------------------------------------------------
(* Further claims about the tracker (SpecTracker) *)

\* The IsComplete call of this step takes the queued-exchange path and
\* reports the exchange ready.
ReadyThroughQueue ==
    /\ IsCompleteStep
    /\ conn.recordTestCountAtomic > 0
    /\ trkLast'.recordTraffic

\* C32: whenever IsComplete reports an exchange ready through the
\* queued-exchange path, the returned request buffer is as long as the
\* validated request byte count and the returned response buffer as long as
\* the validated response byte count, so an exchange with a truncated
\* payload (MsgSize above the event body limit) is never reported ready.
C32_ValidatedLengths ==
    [][ ReadyThroughQueue =>
          /\ Len(trkLast'.requestBuf) = Head(conn.totalRecvBytesQueue)
          /\ Len(trkLast'.responseBuf) = Head(conn.totalSentBytesQueue)
      ]_vars

\* IsComplete would find byte counts to compare but no data buffer to return
NoDataBufferBranch ==
    \/ /\ conn.recordTestCountAtomic > 0
       /\ Len(conn.currentRecvBytesQueue) > 0 /\ Len(conn.totalRecvBytesQueue) > 0
       /\ Len(conn.currentSentBytesQueue) > 0 /\ Len(conn.totalSentBytesQueue) > 0
       /\ ~(Len(conn.currentRecvBufQueue) > 0 /\ Len(conn.currentSentBufQueue) > 0)
    \/ /\ conn.recordTestCountAtomic <= 0
       /\ Len(conn.currentRecvBytesQueue) > 0 /\ Len(conn.totalRecvBytesQueue) > 0
       /\ Len(conn.currentRecvBufQueue) = 0

\* C38: in every reachable state of the tracker the three request-side
\* queues have the same length and the three response-side queues have the
\* same length, so IsComplete never finds byte counts without a data buffer,
\* and the completed-exchange counter is never negative.
C38_QueuesAligned ==
    /\ Len(conn.currentRecvBytesQueue) = Len(conn.totalRecvBytesQueue)
    /\ Len(conn.currentRecvBytesQueue) = Len(conn.currentRecvBufQueue)
    /\ Len(conn.currentSentBytesQueue) = Len(conn.totalSentBytesQueue)
    /\ Len(conn.currentSentBytesQueue) = Len(conn.currentSentBufQueue)
    /\ ~NoDataBufferBranch
    /\ conn.recordTestCountAtomic >= 0

\* IsComplete has reported an exchange and removed it from the six queues
\* while the request of the next exchange is already queued on the
\* request side.
C38_Witness ==
    /\ trkLast.op = "IsComplete" /\ trkLast.recordTraffic
    /\ Len(conn.currentRecvBufQueue) = 1
    /\ Len(conn.currentSentBufQueue) = 0
    /\ conn.recordTestCountAtomic = 0

----------------------------------------------------------------------------
(* Further claims about recorder.Start (SpecRecorder) *)

\* the goroutines of Start that send on one of its three error channels
ErrorSenders == {"test", "mock", "app"}

\* C33: on every exit path of recorder.Start and under every interleaving,
\* none of the goroutines it spawned (test-case consumer, mock consumer,
\* application runner) sends on appErrChan, insertTestErrChan or
\* insertMockErrChan after the deferred close of that channel has run.
C33_NoSendOnClosed ==
    \A w \in ErrorSenders : workers[w] # "panic"

\* C34: after the context is cancelled or after the first mock insert error
\* has been received, recorder.StartMock eventually returns, for any number
\* of mocks whose insertion fails: no insert goroutine stays blocked forever
\* on its send on the unbuffered insert-error channel.
C34_StartMockReturns ==
    (smock.ctxDone \/ smock.received > 0) ~> (smock.pc = "returned")

----------------------------------------------------------------------------
(* Claims about server.Serve (SpecServe) *)

\* C37: on every exit path of Serve taken after the hooks were loaded, the
\* hooks' Stop is invoked exactly once, and on every exit path after the
\* proxy was booted StopProxyServer is invoked exactly once, whichever of
\* the signal and the exit of the application comes first and however
\* they interleave.
C37_StopsExactlyOnce ==
    /\ serve.stops <= 1 /\ serve.proxyStops <= 1
    /\ serve.pc = "returned" =>
          /\ serve.hooksLoaded => serve.stops = 1
          /\ serve.proxyBooted => serve.proxyStops = 1

----------------------------------------------------------------------------
(* Further claims about package yaml (SpecUtil) *)

\* CompareHeaders(h2, h1) with an empty result list gives the boolean b,
\* in whatever order the two maps are ranged over
SwappedGives(b) ==
    \A order1 \in KeyOrders(call.h2), order2 \in KeyOrders(call.h1) :
        CompareHeaders(call.h2, call.h1, <<>>, call.noise, order1, order2).match = b

\* the result list holds at most one entry per header key
OneEntryPerKey(res) ==
    \A p, q \in 1..Len(res) :
        p # q => res[p].Expected.Key # res[q].Expected.Key

\* C39: given a result list that is not nil and empty at the call,
\* CompareHeaders(h1, h2) returns true if and only if h1 and h2, restricted
\* to the keys that are not noise, have the same key set and for every key
\* the same value list in the same order; the boolean is the same with h1
\* and h2 swapped, and the result list holds at most one entry per key.
C39_HeaderDiffExact ==
    (call.fn = "CompareHeaders" /\ call.res = <<>>) =>
        /\ call.out.match <=>
              /\ DOMAIN Quiet(call.h1, call.noise) = DOMAIN Quiet(call.h2, call.noise)
              /\ \A k \in DOMAIN Quiet(call.h1, call.noise) : call.h1[k] = call.h2[k]
        /\ SwappedGives(call.out.match)
        /\ OneEntryPerKey(call.out.res)

\* Without noise, two maps with the same keys whose values of Date are the
\* same two strings in a different order: the comparison returned false and
\* the result list holds one entry for Date and one for Etag.
C39_Witness ==
    /\ call.fn = "CompareHeaders" /\ call.res = <<>> /\ call.noise = {}
    /\ DOMAIN call.h1 = HeaderKeys /\ DOMAIN call.h2 = HeaderKeys
    /\ call.h1["Date"] = <<"a", "b">> /\ call.h2["Date"] = <<"b", "a">>
    /\ call.h1["Etag"] = call.h2["Etag"]
    /\ ~call.out.match
    /\ Len(call.out.res) = 2
====
